---- MODULE Spec2Model ----
(***************************************************************************)
(* Verification model of the variation generation pipeline                 *)
(* (src/services/geminiService.ts): generateContentWithRetry,              *)
(* generateSingleImageVariation and generateImageVariations, with the      *)
(* generation service as a nondeterministic environment.                   *)
(***************************************************************************)
EXTENDS Integers, Sequences, FiniteSets, TLC

\* ------------------------------------------------------------------------
\* Bounds of the model
\* ------------------------------------------------------------------------
\* numToGenerate ranges over 0..MaxCount (above the catalog length).
MaxCount == 11
\* numToGenerate of the runs against the full fault menu ranges over
\* 0..MaxFewCount.
MaxFewCount == 2
\* options.batchSize, when given, ranges over 1..MaxBatch.
MaxBatch == 2
\* Number of generateSingleImageVariation calls of one run to which the
\* service gives a faulty reply (transport failure or bad response); a call
\* that has had one may have more, up to the retry limit.
MaxFaultyCalls == 1

\* The log keeps its first MaxLog entries (more than any run with a batch
\* size of 1 or more writes).
MaxLog == 26

\* ------------------------------------------------------------------------
\* Program constants
\* ------------------------------------------------------------------------
retries == 3
delay == 1000
DefaultBatchSize == 5

Min(a, b) == IF a < b THEN a ELSE b
Max(a, b) == IF a > b THEN a ELSE b

\* ------------------------------------------------------------------------
\* Strings (character level)
\* ------------------------------------------------------------------------
UpperChars == "ABCDEFGHIJKLMNOPQRSTUVWXYZ"
LowerChars == "abcdefghijklmnopqrstuvwxyz"

CharAt(s, k) == SubSeq(s, k, k)

UpperSet == { CharAt(UpperChars, k) : k \in 1..26 }

LowerOf ==
  [c \in UpperSet |->
     CharAt(LowerChars, CHOOSE k \in 1..26 : CharAt(UpperChars, k) = c)]

LowerChar(c) == IF c \in UpperSet THEN LowerOf[c] ELSE c

RECURSIVE toLowerCase(_)
toLowerCase(s) ==
  IF Len(s) = 0 THEN "" ELSE LowerChar(Head(s)) \o toLowerCase(Tail(s))

includes(hay, needle) ==
  \E k \in 1..(Len(hay) - Len(needle) + 1) :
     SubSeq(hay, k, k + Len(needle) - 1) = needle

\* Index of the first occurrence of character c in s, 0 when absent.
IndexOfChar(s, c) ==
  IF \E k \in 1..Len(s) : CharAt(s, k) = c
  THEN CHOOSE k \in 1..Len(s) :
         /\ CharAt(s, k) = c
         /\ \A j \in 1..(k - 1) : CharAt(s, j) # c
  ELSE 0

\* data.split(",")[1] || data
sanitizeBase64(data) ==
  LET c1 == IndexOfChar(data, ",") IN
  IF c1 = 0 THEN data
  ELSE LET rest == SubSeq(data, c1 + 1, Len(data))
           c2 == IndexOfChar(rest, ",")
           second == IF c2 = 0 THEN rest ELSE SubSeq(rest, 1, c2 - 1)
       IN IF second = "" THEN data ELSE second

\* Mutant: the comparison is case-sensitive.
isSupportedImageMimeExact(mime) ==
  mime \in {"image/png", "image/jpeg", "image/jpg", "image/webp"}

\* /^(image\/(png|jpeg|jpg|webp))$/i.test(mime)
isSupportedImageMime(mime) ==
  toLowerCase(mime) \in {"image/png", "image/jpeg", "image/jpg", "image/webp"}

\* Array.prototype.slice(a, b) on a sequence (0-based, end exclusive,
\* negative indices counted from the end, both clamped).
Slice(s, a, b) ==
  LET n == Len(s)
      from == IF a < 0 THEN Max(n + a, 0) ELSE Min(a, n)
      to == IF b < 0 THEN Max(n + b, 0) ELSE Min(b, n)
  IN SubSeq(s, from + 1, to)

\* ------------------------------------------------------------------------
\* JSON.parse (objects, arrays, strings, integers, true/false/null), by
\* recursive descent on the characters of the text.
\* A parse step yields [ok, val, rest]; ok = FALSE is a SyntaxError.
\* ------------------------------------------------------------------------
JUndefined == [t |-> "undefined"]
JNull == [t |-> "null"]
JFail == [ok |-> FALSE, val |-> JUndefined, rest |-> ""]
JOk(v, r) == [ok |-> TRUE, val |-> v, rest |-> r]

Digits == "0123456789"
IsDigit(c) == \E k \in 1..10 : CharAt(Digits, k) = c
StartsWith(s, p) == Len(s) >= Len(p) /\ SubSeq(s, 1, Len(p)) = p
Drop(s, n) == SubSeq(s, n + 1, Len(s))

RECURSIVE SkipWs(_)
SkipWs(s) == IF Len(s) > 0 /\ Head(s) = " " THEN SkipWs(Tail(s)) ELSE s

\* Characters of a string literal after its opening quote.
RECURSIVE ParseStringBody(_, _)
ParseStringBody(s, acc) ==
  IF Len(s) = 0 THEN JFail
  ELSE IF Head(s) = "\"" THEN JOk([t |-> "str", v |-> acc], Tail(s))
  ELSE IF Head(s) = "\\"
       THEN IF Len(s) < 2 THEN JFail
            ELSE ParseStringBody(Drop(s, 2), acc \o CharAt(s, 2))
  ELSE ParseStringBody(Tail(s), acc \o Head(s))

RECURSIVE TakeDigits(_, _)
TakeDigits(s, acc) ==
  IF Len(s) > 0 /\ IsDigit(Head(s)) THEN TakeDigits(Tail(s), acc \o Head(s))
  ELSE [digits |-> acc, rest |-> s]

ParseNumber(s) ==
  LET neg == StartsWith(s, "-")
      body == IF neg THEN Tail(s) ELSE s
      d == IF StartsWith(body, "0")
           THEN [digits |-> "0", rest |-> Tail(body)]
           ELSE TakeDigits(body, "")
  IN IF d.digits = "" THEN JFail
     ELSE JOk([t |-> "num", v |-> (IF neg THEN "-" ELSE "") \o d.digits], d.rest)

RECURSIVE ParseValue(_), ParseMembers(_, _), ParseElements(_, _)
ParseValue(s0) ==
  LET s == SkipWs(s0) IN
  IF Len(s) = 0 THEN JFail
  ELSE IF StartsWith(s, "null") THEN JOk(JNull, Drop(s, 4))
  ELSE IF StartsWith(s, "true") THEN JOk([t |-> "bool", v |-> TRUE], Drop(s, 4))
  ELSE IF StartsWith(s, "false") THEN JOk([t |-> "bool", v |-> FALSE], Drop(s, 5))
  ELSE IF Head(s) = "\"" THEN ParseStringBody(Tail(s), "")
  ELSE IF Head(s) = "{"
       THEN LET r == SkipWs(Tail(s)) IN
            IF StartsWith(r, "}") THEN JOk([t |-> "obj", v |-> <<>>], Tail(r))
            ELSE ParseMembers(r, <<>>)
  ELSE IF Head(s) = "["
       THEN LET r == SkipWs(Tail(s)) IN
            IF StartsWith(r, "]") THEN JOk([t |-> "arr", v |-> <<>>], Tail(r))
            ELSE ParseElements(r, <<>>)
  ELSE ParseNumber(s)

\* member (, member)* }
ParseMembers(s0, acc) ==
  LET s == SkipWs(s0) IN
  IF ~StartsWith(s, "\"") THEN JFail
  ELSE LET k == ParseStringBody(Tail(s), "") IN
       IF ~k.ok THEN JFail
       ELSE LET c == SkipWs(k.rest) IN
            IF ~StartsWith(c, ":") THEN JFail
            ELSE LET v == ParseValue(Tail(c)) IN
                 IF ~v.ok THEN JFail
                 ELSE LET more == SkipWs(v.rest)
                          acc2 == Append(acc, [k |-> k.val.v, v |-> v.val])
                      IN IF StartsWith(more, "}")
                         THEN JOk([t |-> "obj", v |-> acc2], Tail(more))
                         ELSE IF StartsWith(more, ",")
                              THEN ParseMembers(Tail(more), acc2)
                              ELSE JFail

\* element (, element)* ]
ParseElements(s0, acc) ==
  LET v == ParseValue(s0) IN
  IF ~v.ok THEN JFail
  ELSE LET more == SkipWs(v.rest)
           acc2 == Append(acc, v.val)
       IN IF StartsWith(more, "]")
          THEN JOk([t |-> "arr", v |-> acc2], Tail(more))
          ELSE IF StartsWith(more, ",")
               THEN ParseElements(Tail(more), acc2)
               ELSE JFail

\* JSON.parse(text): ok = FALSE when it throws SyntaxError.
JSONParse(text) ==
  LET r == ParseValue(text) IN
  IF r.ok /\ SkipWs(r.rest) = "" THEN r ELSE JFail

\* v[key] for a parsed value v that is not null/undefined (the last of
\* duplicate keys wins; primitives and arrays have no such property).
GetProp(v, key) ==
  IF v.t = "obj" /\ \E k \in 1..Len(v.v) : v.v[k].k = key
  THEN v.v[CHOOSE k \in 1..Len(v.v) :
             /\ v.v[k].k = key
             /\ \A j \in (k + 1)..Len(v.v) : v.v[j].k # key].v
  ELSE JUndefined

Nullish(v) == v.t \in {"null", "undefined"}

Truthy(v) ==
  CASE v.t \in {"null", "undefined"} -> FALSE
    [] v.t = "bool" -> v.v
    [] v.t = "str" -> v.v # ""
    [] v.t = "num" -> v.v \notin {"0", "-0"}
    [] OTHER -> TRUE

\* ------------------------------------------------------------------------
\* Prompt catalog (the ten angle fragments and the two constant suffixes
\* are abbreviated; the composition and the order are the program's)
\* ------------------------------------------------------------------------
BASE_INSTRUCTIONS == "Fundamental: keep identity."
NEGATIVE_PROMPT == "Avoid: props."

composePrompt(anglePrompt) ==
  anglePrompt \o " " \o BASE_INSTRUCTIONS \o " " \o NEGATIVE_PROMPT

detailedAnglePrompts ==
  << composePrompt("3/4 left."),
     composePrompt("Frontal."),
     composePrompt("From above."),
     composePrompt("3/4 right."),
     composePrompt("Close-up."),
     composePrompt("Low angle."),
     composePrompt("High 3/4."),
     composePrompt("Back."),
     composePrompt("Chiaroscuro."),
     composePrompt("On a surface.") >>

\* ------------------------------------------------------------------------
\* The generation service (environment)
\* ------------------------------------------------------------------------
\* The image bytes a deterministic service returns for a prompt.
ImageFor(prompt) == "b64<" \o prompt \o ">"

NoCandidate(blockReason) == [candidates |-> <<>>, blockReason |-> blockReason]
OneCandidate(finishReason, parts, safetyRatings) ==
  [candidates |-> << [finishReason |-> finishReason, parts |-> parts,
                      safetyRatings |-> safetyRatings] >>,
   blockReason |-> ""]

TextPart == [data |-> ""]
ImagePart(prompt) == [data |-> ImageFor(prompt)]

\* Responses of a transport-level success, "" standing for an absent field.
GoodResponses(prompt) ==
  { OneCandidate("STOP", <<TextPart, ImagePart(prompt)>>, <<>>),
    OneCandidate("", <<ImagePart(prompt)>>, <<>>) }

BadKinds == {"empty", "blocked", "safety", "truncated", "noimage"}

BadResponse(kind, prompt) ==
  CASE kind = "empty" -> NoCandidate("")
    [] kind = "blocked" -> NoCandidate("OTHER")
    [] kind = "safety" ->
         OneCandidate("SAFETY", <<ImagePart(prompt)>>,
                      << [category |-> "HARM_CATEGORY_A", blocked |-> FALSE],
                         [category |-> "HARM_CATEGORY_B", blocked |-> TRUE] >>)
    [] kind = "truncated" -> OneCandidate("MAX_TOKENS", <<ImagePart(prompt)>>, <<>>)
    [] kind = "noimage" -> OneCandidate("STOP", <<TextPart>>, <<>>)

\* Errors thrown by ai.models.generateContent (message texts).
TransportErrors ==
  { "Failed to fetch",
    "{\"error\":{\"code\":500,\"message\":\"Internal error\"}}",
    "null" }

\* ------------------------------------------------------------------------
\* generateSingleImageVariation: inspection of a response
\* ------------------------------------------------------------------------
Fulfilled(value) == [ok |-> TRUE, value |-> value]
Thrown(message) == [ok |-> FALSE, value |-> message]

\* First part carrying inline data, "" for null.
RECURSIVE extractBase64FromParts(_)
extractBase64FromParts(parts) ==
  IF Len(parts) = 0 THEN ""
  ELSE IF Head(parts).data # "" THEN Head(parts).data
  ELSE extractBase64FromParts(Tail(parts))

extractBase64FromCandidate(candidate) == extractBase64FromParts(candidate.parts)

\* safetyRatings?.find(r => r.blocked): its category, "" when none.
RECURSIVE BlockedCategory(_)
BlockedCategory(ratings) ==
  IF Len(ratings) = 0 THEN ""
  ELSE IF Head(ratings).blocked THEN Head(ratings).category
  ELSE BlockedCategory(Tail(ratings))

\* Mutant: the image data is looked for before the finish reason.
InspectResponseImageFirst(response) ==
  IF Len(response.candidates) = 0
  THEN IF response.blockReason # ""
       THEN Thrown("Generation blocked. Reason: " \o response.blockReason \o ".")
       ELSE Thrown("The API response does not contain any valid candidates.")
  ELSE LET candidate == response.candidates[1]
           base64Out == extractBase64FromCandidate(candidate)
       IN IF base64Out # "" THEN Fulfilled(base64Out)
          ELSE IF candidate.finishReason # "" /\ candidate.finishReason # "STOP"
          THEN IF candidate.finishReason = "SAFETY"
               THEN LET c == BlockedCategory(candidate.safetyRatings) IN
                    Thrown("Generation blocked for safety reasons."
                           \o (IF c # "" THEN " Category: " \o c ELSE ""))
               ELSE Thrown("Generation failed. Reason: "
                           \o candidate.finishReason \o ".")
          ELSE Thrown("No image data found in the API response.")

InspectResponse(response) ==
  IF Len(response.candidates) = 0
  THEN IF response.blockReason # ""
       THEN Thrown("Generation blocked. Reason: " \o response.blockReason \o ".")
       ELSE Thrown("The API response does not contain any valid candidates.")
  ELSE LET candidate == response.candidates[1] IN
       IF candidate.finishReason # "" /\ candidate.finishReason # "STOP"
       THEN IF candidate.finishReason = "SAFETY"
            THEN LET c == BlockedCategory(candidate.safetyRatings) IN
                 Thrown("Generation blocked for safety reasons."
                        \o (IF c # "" THEN " Category: " \o c ELSE ""))
            ELSE Thrown("Generation failed. Reason: "
                        \o candidate.finishReason \o ".")
       ELSE LET base64Out == extractBase64FromCandidate(candidate) IN
            IF base64Out = ""
            THEN Thrown("No image data found in the API response.")
            ELSE Fulfilled(base64Out)

UnsupportedMime(mimeType) ==
  "Unsupported MIME type: " \o mimeType \o ". Use PNG, JPEG, or WEBP."

\* ------------------------------------------------------------------------
\* generateImageVariations: classification of a rejection for the payload
\* ------------------------------------------------------------------------
\* The four friendly messages, their accented letters written unaccented
\* (strings are kept to ASCII).
ServerErrorMsg == "Ocorreu um erro no servidor. Por favor, tente novamente."
SafetyMsg == "A geracao foi bloqueada por motivos de seguranca."
BlockedMsg == "A geracao foi bloqueada por um motivo nao especificado."
NetworkMsg == "Falha de rede. Verifique sua conexao com a internet."

\* The try block: threw = TRUE when it throws (SyntaxError of JSON.parse,
\* TypeError of reading .error of null), else the message it leaves.
TryParse(rawErrorMessage) ==
  LET parsed == JSONParse(rawErrorMessage) IN
  IF ~parsed.ok THEN [threw |-> TRUE, msg |-> rawErrorMessage]
  ELSE LET errorObj == parsed.val IN
       IF Nullish(errorObj) THEN [threw |-> TRUE, msg |-> rawErrorMessage]
       ELSE LET err == GetProp(errorObj, "error")
                message == IF Nullish(err) THEN JUndefined
                           ELSE GetProp(err, "message")
            IN [threw |-> FALSE,
                msg |-> IF Truthy(message) THEN ServerErrorMsg
                        ELSE rawErrorMessage]

\* The catch block.
CatchPatterns(rawErrorMessage) ==
  LET lowerCaseError == toLowerCase(rawErrorMessage) IN
  IF includes(lowerCaseError, "safety") THEN SafetyMsg
  ELSE IF includes(lowerCaseError, "blocked") THEN BlockedMsg
  ELSE IF includes(lowerCaseError, "network")
          \/ includes(lowerCaseError, "failed to fetch") THEN NetworkMsg
  ELSE rawErrorMessage

friendlyErrorMessage(rawErrorMessage) ==
  LET t == TryParse(rawErrorMessage) IN
  IF t.threw THEN CatchPatterns(rawErrorMessage) ELSE t.msg

\* Mutant: the index within the chunk, without the chunk's offset.
FailureEntryLocal(i, index, rawErrorMessage) ==
  "Variacao " \o ToString(index + 1) \o ": "
    \o friendlyErrorMessage(rawErrorMessage)

\* `Variacao ${i + index + 1}: ${friendlyErrorMessage}` (index 0-based)
FailureEntry(i, index, rawErrorMessage) ==
  "Variacao " \o ToString(i + index + 1) \o ": "
    \o friendlyErrorMessage(rawErrorMessage)

SuccessEntry(value) == "data:image/png;base64," \o value

\* ------------------------------------------------------------------------
\* State
\* ------------------------------------------------------------------------
VARIABLES
  mock,           \* window.MOCK_GENERATION === true
  base64Data,     \* argument: the reference image
  mimeType,       \* argument
  numToGenerate,  \* argument
  options,        \* argument: [given, batchSize]
  pc,             \* position of generateImageVariations
  batchSize,      \* local: options?.batchSize ?? 5
  i,              \* local: loop index
  promptsToRun,   \* local
  imagePromises,  \* local: the calls of the current chunk, in map order
  settleOrder,    \* indices of imagePromises in the order they settled
  log,            \* calls of generateSingleImageVariation and payloads
                  \* handed to onBatchComplete, in program order
  faultyCalls,    \* calls the service has given a faulty reply so far
  svcErrors,      \* environment: the errors the transport may fail with
  svcBadKinds     \* environment: the bad responses the service may give

\* One call followed from the service's reply to the entry reported for it.
VARIABLES
  reply,          \* what ai.models.generateContent ended with
  opc,            \* position: "idle", "settled", "reported"
  callResult,     \* settlement of generateSingleImageVariation
  reported        \* the string pushed to successes or failures

outcomeVars == << reply, opc, callResult, reported >>

NoReply == [kind |-> "none", text |-> "", response |-> NoCandidate("")]

OutcomeIdle ==
  /\ reply = NoReply
  /\ opc = "off"
  /\ callResult = Thrown("")
  /\ reported = ""

pipelineVars == << mock, base64Data, mimeType, numToGenerate, options, pc,
                   batchSize, i, promptsToRun, imagePromises, settleOrder,
                   log, faultyCalls, svcErrors, svcBadKinds >>

\* The layout arithmetic of createBrandedAlbum, for one image count rendered
\* at one resolution and then at another.
VARIABLES
  imageCount,     \* images.length
  resolution,     \* argument
  lpc,            \* position: "start", "laid"
  layout,         \* the grid and the metrics of lines 111-129
  cards,          \* the card rectangle of every image, in array order
  previous        \* layout and cards of the render before this one

layoutVars == << imageCount, resolution, lpc, layout, cards, previous >>

NoLayout == [COLS |-> 0, ROWS |-> 0]
NoPrevious == [seen |-> FALSE]

LayoutIdle ==
  /\ imageCount = 0
  /\ resolution = 0
  /\ lpc = "off"
  /\ layout = NoLayout
  /\ cards = <<>>
  /\ previous = NoPrevious

\* One call of createBrandedAlbum.
VARIABLES
  images,         \* argument: the sources, as the decoder will find them
  albumOptions,   \* argument: logo, watermark, aspect ratio, fit
  albumResolution, \* argument
  ctxAvailable,   \* canvas.getContext('2d') returns a context
  apc,            \* position: "idle", "loading", "resolved", "rejected"
  loads,          \* state of loadImage for every entry of allSrcs
  progress,       \* values handed to onProgress, in order
  canvas,         \* drawing calls on the context, in order
  albumResult,    \* the data URL returned, or the error thrown
  earlierCanvas   \* the drawing calls of an earlier call with the same input

albumVars == << images, albumOptions, albumResolution, ctxAvailable, apc,
                loads, progress, canvas, albumResult, earlierCanvas >>

NoOptions ==
  [logo |-> "none", showWatermark |-> FALSE, imageAspectRatio |-> "auto",
   imageFit |-> "contain"]

AlbumIdle ==
  /\ images = <<>>
  /\ albumOptions = NoOptions
  /\ albumResolution = 0
  /\ ctxAvailable = TRUE
  /\ apc = "off"
  /\ loads = <<>>
  /\ progress = <<>>
  /\ canvas = <<>>
  /\ albumResult = ""
  /\ earlierCanvas = <<>>

\* One call of computePalette.
VARIABLES
  logo,           \* argument: the logo, as the decoder will find it
  paletteCtx,     \* canvas.getContext('2d', ...) returns a context
  ppc,            \* position: "idle", "loading", "resolved"
  palette         \* the palette the call resolved with

paletteVars == << logo, paletteCtx, ppc, palette >>

NoLogo == [decodable |-> FALSE, r |-> 0, g |-> 0, b |-> 0]
NoPalette == [primary |-> ""]

PaletteIdle ==
  /\ logo = NoLogo
  /\ paletteCtx = TRUE
  /\ ppc = "off"
  /\ palette = NoPalette

\* One mounted GeneratedImageGallery and the parent that owns its images.
VARIABLES
  galleryImages,  \* prop: images
  dragItemIndex,  \* useState<number | null>
  dragged,        \* id of the item picked up by the last dragStart, or ""
  lastEvent       \* the last event handled and what its handler did

galleryVars == << galleryImages, dragItemIndex, dragged, lastEvent >>

\* null, for dragItemIndex.
Null == -1

NoEvent == [kind |-> "none"]

GalleryIdle ==
  /\ galleryImages = <<>>
  /\ dragItemIndex = Null
  /\ dragged = ""
  /\ lastEvent = NoEvent

\* The state outside each of the six.
offPipeline ==
  << outcomeVars, layoutVars, albumVars, paletteVars, galleryVars >>
offOutcome ==
  << pipelineVars, layoutVars, albumVars, paletteVars, galleryVars >>
offLayout ==
  << pipelineVars, outcomeVars, albumVars, paletteVars, galleryVars >>
offAlbum ==
  << pipelineVars, outcomeVars, layoutVars, paletteVars, galleryVars >>
offPalette ==
  << pipelineVars, outcomeVars, layoutVars, albumVars, galleryVars >>
offGallery ==
  << pipelineVars, outcomeVars, layoutVars, albumVars, paletteVars >>

OffPipelineIdle ==
  OutcomeIdle /\ LayoutIdle /\ AlbumIdle /\ PaletteIdle /\ GalleryIdle

vars == << pipelineVars, outcomeVars, layoutVars, albumVars, paletteVars,
           galleryVars >>

args == << mock, base64Data, mimeType, numToGenerate, options,
           svcErrors, svcBadKinds >>

MimeTypes ==
  { "image/png", "IMAGE/JPEG", "image/jpg", "Image/WebP",
    "image/gif", "image/pngx", "ximage/png", "png", "" }

Base64Inputs == { "data:image/png;base64,QUJD" }

OptionValues ==
  { [given |-> FALSE, batchSize |-> 0] }
    \cup { [given |-> TRUE, batchSize |-> b] : b \in 1..MaxBatch }

Start ==
  /\ pc = "idle"
  /\ batchSize = 0
  /\ i = 0
  /\ promptsToRun = <<>>
  /\ imagePromises = <<>>
  /\ settleOrder = <<>>
  /\ log = <<>>
  /\ faultyCalls = 0

\* Runs over every count and batch size, against a service whose only
\* fault is one kind of transport error.
Init ==
  /\ mock \in BOOLEAN
  /\ base64Data \in Base64Inputs
  /\ mimeType \in {"image/png", "image/gif"}
  /\ numToGenerate \in 0..MaxCount
  /\ options \in OptionValues
  /\ svcErrors = {"Failed to fetch"}
  /\ svcBadKinds = {}
  /\ Start
  /\ OffPipelineIdle

\* Runs of a few calls, over every MIME type, against a service with every
\* kind of transport error and bad response.
InitFaults ==
  /\ mock \in BOOLEAN
  /\ base64Data \in Base64Inputs
  /\ mimeType \in MimeTypes
  /\ numToGenerate \in 0..MaxFewCount
  /\ options \in { o \in OptionValues : o.given }
  /\ svcErrors = TransportErrors
  /\ svcBadKinds = BadKinds
  /\ Start
  /\ OffPipelineIdle

\* ------------------------------------------------------------------------
\* generateContentWithRetry, as steps of one call
\* ------------------------------------------------------------------------
\* Mutant: the last attempt is taken to be the one after the third.
IsLastAttemptLate(attempt) == attempt = retries

\* i === retries - 1
IsLastAttempt(attempt) == attempt = retries - 1

\* delay * (i + 1)
BackoffDelay(attempt) == delay * (attempt + 1)

\* generateSingleImageVariation up to its first await: the MIME check, then
\* the first request of generateContentWithRetry.
NewRequest(prompt, mime) ==
  IF ~isSupportedImageMime(mime)
  THEN [prompt |-> prompt, st |-> "rejected", attempt |-> 0, reqs |-> 0,
        waits |-> <<>>, fails |-> 0, lastError |-> "", out |-> UnsupportedMime(mime)]
  ELSE [prompt |-> prompt, st |-> "inflight", attempt |-> 0, reqs |-> 1,
        waits |-> <<>>, fails |-> 0, lastError |-> "", out |-> ""]

Settled(r) == r.st \in {"fulfilled", "rejected"}

\* ai.models.generateContent rejects with error.
OnTransportError(r, error) ==
  IF IsLastAttempt(r.attempt)
  THEN [r EXCEPT !.st = "rejected", !.out = error,
                 !.fails = @ + 1, !.lastError = error]
  ELSE [r EXCEPT !.st = "backoff",
                 !.waits = Append(@, BackoffDelay(r.attempt)),
                 !.fails = @ + 1, !.lastError = error]

\* The backoff timer fires: i++, loop test, next request.
OnBackoffDone(r) ==
  IF r.attempt + 1 < retries
  THEN [r EXCEPT !.st = "inflight", !.attempt = @ + 1, !.reqs = @ + 1]
  ELSE [r EXCEPT !.st = "rejected", !.attempt = @ + 1,
                 !.out = "Retry logic completed without success or error."]

\* Mutant: a bad response is retried like a transport failure.
OnResponseRetried(r, response) ==
  LET res == InspectResponse(response) IN
  IF res.ok THEN [r EXCEPT !.st = "fulfilled", !.out = res.value]
  ELSE IF r.attempt = retries - 1
       THEN [r EXCEPT !.st = "rejected", !.out = res.value]
       ELSE [r EXCEPT !.st = "backoff",
                      !.waits = Append(@, delay * (r.attempt + 1))]

\* ai.models.generateContent resolves with response.
OnResponse(r, response) ==
  LET res == InspectResponse(response) IN
  [r EXCEPT !.st = IF res.ok THEN "fulfilled" ELSE "rejected",
            !.out = res.value]

\* ------------------------------------------------------------------------
\* generateImageVariations
\* ------------------------------------------------------------------------
Indices(n) == [k \in 1..n |-> k]

\* Indices of the promises that are settled when they are created.
SettledAtCall(promises) ==
  SelectSeq(Indices(Len(promises)), LAMBDA k : Settled(promises[k]))

\* Mutant: resumes as soon as one promise has settled (Promise.race).
allSettledRace(promises, order) ==
  [ready |-> \E k \in 1..Len(promises) : Settled(promises[k]),
   threw |-> FALSE,
   results |-> [k \in 1..Len(promises) |->
                  [status |-> promises[k].st, value |-> promises[k].out]]]

\* Mutant: rejects on the first rejection (Promise.all).
allSettledShortCircuit(promises, order) ==
  [ready |-> \/ \E k \in 1..Len(promises) : promises[k].st = "rejected"
             \/ \A k \in 1..Len(promises) : promises[k].st = "fulfilled",
   threw |-> \E k \in 1..Len(promises) : promises[k].st = "rejected",
   results |-> [k \in 1..Len(promises) |->
                  [status |-> promises[k].st, value |-> promises[k].out]]]

\* Mutant: the results come in the order the promises settled.
allSettledInSettleOrder(promises, order) ==
  [ready |-> \A k \in 1..Len(promises) : Settled(promises[k]),
   threw |-> FALSE,
   results |-> IF Len(order) = Len(promises)
               THEN [k \in 1..Len(promises) |->
                       [status |-> promises[order[k]].st,
                        value |-> promises[order[k]].out]]
               ELSE <<>>]

\* await Promise.allSettled(imagePromises): ready once every promise has
\* settled; never rejects; results in the order of imagePromises.
allSettled(promises, order) ==
  [ready |-> \A k \in 1..Len(promises) : Settled(promises[k]),
   threw |-> FALSE,
   results |-> [k \in 1..Len(promises) |->
                  [status |-> promises[k].st, value |-> promises[k].out]]]

\* results.forEach(...): the payload of one chunk.
Payload(results, i0) ==
  LET n == Len(results)
      okIdx == SelectSeq(Indices(n), LAMBDA k : results[k].status = "fulfilled")
      koIdx == SelectSeq(Indices(n), LAMBDA k : results[k].status # "fulfilled")
  IN [successes |-> [j \in 1..Len(okIdx) |-> SuccessEntry(results[okIdx[j]].value)],
      failures |-> [j \in 1..Len(koIdx) |->
                      FailureEntry(i0, koIdx[j] - 1, results[koIdx[j]].value)]]

CallEntry(prompt) == [op |-> "call", prompt |-> prompt]
BatchEntry(payload) ==
  [op |-> "batch", successes |-> payload.successes, failures |-> payload.failures]

\* The log with one more entry.
Record(log0, entry) ==
  IF Len(log0) < MaxLog THEN Append(log0, entry) ELSE log0

\* i += batchSize
LoopStep(i0, bs) == i0 + bs

\* Mutant: the chunk takes one prompt too many.
BatchPromptsOversize(prompts, i0, bs) == Slice(prompts, i0, i0 + bs + 1)

\* promptsToRun.slice(i, i + batchSize)
BatchPrompts(prompts, i0, bs) == Slice(prompts, i0, i0 + bs)

\* The loop test and, when it passes, the body up to the await.
EnterLoop(prompts, bs, i0, log0) ==
  IF i0 < Len(prompts)
  THEN LET batchPrompts == BatchPrompts(prompts, i0, bs)
           promises == [k \in 1..Len(batchPrompts) |->
                          NewRequest(batchPrompts[k], mimeType)]
       IN /\ pc' = "awaitSettled"
          /\ i' = i0
          /\ imagePromises' = promises
          /\ settleOrder' = SettledAtCall(promises)
          /\ log' = log0 \o [k \in 1..Len(batchPrompts) |->
                               CallEntry(batchPrompts[k])]
  ELSE /\ pc' = "resolved"
       /\ i' = i0
       /\ UNCHANGED << imagePromises, settleOrder >>
       /\ log' = log0

\* options?.batchSize ?? 5
ResolveBatchSize(opts) == IF opts.given THEN opts.batchSize ELSE DefaultBatchSize

\* Mutant: the selection starts at the second catalog entry.
SelectPromptsFromOne(n) == Slice(detailedAnglePrompts, 1, n)

\* detailedAnglePrompts.slice(0, numToGenerate)
SelectPrompts(n) == Slice(detailedAnglePrompts, 0, n)

\* The mock loop test.
MockContinues(i0, n) == i0 < n

Call ==
  /\ pc = "idle"
  /\ batchSize' = ResolveBatchSize(options)
  /\ IF mock
     THEN /\ promptsToRun' = <<>>
          /\ pc' = IF MockContinues(0, numToGenerate) THEN "mockDelay" ELSE "resolved"
          /\ UNCHANGED << i, imagePromises, settleOrder, log >>
     ELSE /\ promptsToRun' = SelectPrompts(numToGenerate)
          /\ EnterLoop(promptsToRun', batchSize', 0, log)
  /\ UNCHANGED << offPipeline, args, faultyCalls >>

\* The mock timer fires: one synthetic payload, then the loop test.
MockBatch ==
  /\ pc = "mockDelay"
  /\ LET batchCount == Min(batchSize, numToGenerate - i)
         successes == [k \in 1..batchCount |-> base64Data]
     IN log' = Record(log, BatchEntry([successes |-> successes, failures |-> <<>>]))
  /\ i' = LoopStep(i, batchSize)
  /\ pc' = IF MockContinues(i', numToGenerate) THEN "mockDelay" ELSE "resolved"
  /\ UNCHANGED << offPipeline, args, batchSize, promptsToRun, imagePromises, settleOrder, faultyCalls >>

SetPromise(k, r) ==
  /\ imagePromises' = [imagePromises EXCEPT ![k] = r]
  /\ settleOrder' = IF Settled(r) THEN Append(settleOrder, k) ELSE settleOrder
  /\ UNCHANGED << offPipeline, args, pc, batchSize, i, promptsToRun, log >>

\* The environment's fault budget: the first faulty reply to a call counts.
HadFault(r) == r.fails > 0
FaultAllowed(r) == HadFault(r) \/ faultyCalls < MaxFaultyCalls
FaultCount(r) == IF HadFault(r) THEN faultyCalls ELSE faultyCalls + 1

ServiceFail ==
  \E k \in 1..Len(imagePromises), error \in svcErrors :
    /\ imagePromises[k].st = "inflight"
    /\ FaultAllowed(imagePromises[k])
    /\ faultyCalls' = FaultCount(imagePromises[k])
    /\ SetPromise(k, OnTransportError(imagePromises[k], error))

BackoffDone ==
  \E k \in 1..Len(imagePromises) :
    /\ imagePromises[k].st = "backoff"
    /\ faultyCalls' = faultyCalls
    /\ SetPromise(k, OnBackoffDone(imagePromises[k]))

\* The replies the service may give to the request of call r.
Replies(r) ==
  GoodResponses(r.prompt) \cup { BadResponse(kind, r.prompt) : kind \in svcBadKinds }

IsFaulty(response) == ~InspectResponse(response).ok

ServiceRespond ==
  \E k \in 1..Len(imagePromises) :
    /\ imagePromises[k].st = "inflight"
    /\ \E response \in Replies(imagePromises[k]) :
         /\ IsFaulty(response) => FaultAllowed(imagePromises[k])
         /\ faultyCalls' = IF IsFaulty(response)
                            THEN FaultCount(imagePromises[k])
                            ELSE faultyCalls
         /\ SetPromise(k, OnResponse(imagePromises[k], response))

\* Promise.allSettled resolves: build the payload, invoke onBatchComplete,
\* step the loop and start the next chunk or return.
BatchSettled ==
  /\ pc = "awaitSettled"
  /\ LET a == allSettled(imagePromises, settleOrder) IN
     /\ a.ready
     /\ IF a.threw
        THEN /\ pc' = "rejected"
             /\ UNCHANGED << i, imagePromises, settleOrder, log >>
        ELSE EnterLoop(promptsToRun, batchSize, LoopStep(i, batchSize),
                       Record(log, BatchEntry(Payload(a.results, i))))
  /\ UNCHANGED << offPipeline, args, batchSize, promptsToRun, faultyCalls >>

Next ==
  \/ Call
  \/ MockBatch
  \/ ServiceFail
  \/ BackoffDone
  \/ ServiceRespond
  \/ BatchSettled

Spec == Init /\ [][Next]_vars

SpecFaults == InitFaults /\ [][Next]_vars

\* Runs of a few calls, of a supported MIME type, in which the caller may
\* also pass a batch size of 0.
InitLive ==
  /\ mock \in BOOLEAN
  /\ base64Data \in Base64Inputs
  /\ mimeType = "image/png"
  /\ numToGenerate \in 0..MaxFewCount
  /\ options \in OptionValues \cup { [given |-> TRUE, batchSize |-> 0] }
  /\ svcErrors = {"Failed to fetch"}
  /\ svcBadKinds = {}
  /\ Start
  /\ OffPipelineIdle

\* Every request is answered, every timer fires and every continuation that
\* is ready is run.
SpecLive == InitLive /\ [][Next]_vars /\ WF_vars(Next)

\* ------------------------------------------------------------------------
\* Observations
\* ------------------------------------------------------------------------
\* Length of the prompt catalog.
CatalogSize == 10

CeilDiv(a, b) == (a + b - 1) \div b

IsCall(e) == e.op = "call"
IsBatch(e) == e.op = "batch"

\* The calls of generateSingleImageVariation and the payloads handed to
\* onBatchComplete so far.
Calls == SelectSeq(log, IsCall)
Batches == SelectSeq(log, IsBatch)

CallsBefore(j) == Len(SelectSeq(SubSeq(log, 1, j - 1), IsCall))
BatchesBefore(j) == Len(SelectSeq(SubSeq(log, 1, j - 1), IsBatch))

InFlight == { k \in 1..Len(imagePromises) : imagePromises[k].st = "inflight" }
AllSettledNow == \A k \in 1..Len(imagePromises) : Settled(imagePromises[k])

\* ------------------------------------------------------------------------
\* Claims
\* ------------------------------------------------------------------------
\* C1: with mock mode off, count >= 1 and batchSize >= 1, a finished run has
\* made exactly min(count, 10) calls, for the catalog prompts
\* [0, min(count, 10)) in catalog order; chunk c holds the prompts
\* [c*batchSize, c*batchSize + batchSize) (every call of 0-based position p
\* comes after exactly floor(p / batchSize) payloads, every payload after all
\* the calls of its chunk), and onBatchComplete has been invoked
\* ceil(min(count, 10) / batchSize) times.
C1_CallsAndBatches ==
  (~mock /\ pc = "resolved" /\ numToGenerate >= 1 /\ batchSize >= 1) =>
    LET N == Min(numToGenerate, CatalogSize) IN
    /\ Len(Calls) = N
    /\ \A k \in 1..Len(Calls) : Calls[k].prompt = detailedAnglePrompts[k]
    /\ Len(Batches) = CeilDiv(N, batchSize)
    /\ \A j \in 1..Len(log) :
         IF IsCall(log[j])
         THEN BatchesBefore(j) = CallsBefore(j) \div batchSize
         ELSE CallsBefore(j) = Min((BatchesBefore(j) + 1) * batchSize, N)

\* A finished run asked for more than the catalog holds, in chunks of 2.
C1_Witness ==
  /\ ~mock /\ pc = "resolved"
  /\ numToGenerate > CatalogSize /\ batchSize = 2
  /\ Len(Calls) = CatalogSize /\ Len(Batches) = 5

\* C2: batches are strictly sequential. In every state the requests in
\* flight belong to the one current chunk and are at most batchSize; every
\* call of chunk c+1 is made after the payload of chunk c; and no request is
\* in flight at the moment a payload is delivered or a chunk is started.
C2_State ==
  (~mock /\ pc # "idle") =>
    /\ Cardinality(InFlight) <= batchSize
    /\ i % batchSize = 0
    /\ pc = "awaitSettled" =>
         \A k \in 1..Len(imagePromises) :
           /\ i + k <= Len(promptsToRun)
           /\ k <= batchSize
           /\ imagePromises[k].prompt = promptsToRun[i + k]
    /\ \A j \in 1..Len(log) :
         IsCall(log[j]) => BatchesBefore(j) = CallsBefore(j) \div batchSize

C2_Step == (log' # log) => AllSettledNow

C2_SequentialBatches == [](C2_State) /\ [][C2_Step]_vars

\* Two requests of the second chunk are in flight together.
C2_Witness ==
  /\ ~mock /\ pc = "awaitSettled" /\ batchSize = 2
  /\ Len(Batches) = 1
  /\ Cardinality(InFlight) = 2

\* C3: for every chunk onBatchComplete is invoked exactly once, only after
\* every request of the chunk has settled, and its payload accounts for every
\* request of the chunk: len(successes) + len(failures) = chunk size.
C3_State ==
  ~mock =>
    /\ pc = "awaitSettled" => Len(Batches) = i \div batchSize
    /\ pc = "resolved" => Len(Batches) = CeilDiv(Len(promptsToRun), batchSize)

C3_Step ==
  (~mock /\ pc = "awaitSettled" /\ log' # log) =>
    /\ AllSettledNow
    /\ Len(imagePromises) = Min(batchSize, Len(promptsToRun) - i)
    /\ Len(SelectSeq(log', IsBatch)) = Len(Batches) + 1
    /\ LET e == log'[Len(log) + 1] IN
       /\ IsBatch(e)
       /\ Len(e.successes) + Len(e.failures) = Len(imagePromises)

C3_OneCallbackPerSettledChunk == [](C3_State) /\ [][C3_Step]_vars

\* A chunk of two whose first request was rejected and whose second was
\* fulfilled later has been reported in one payload.
C3_Witness ==
  /\ ~mock /\ pc = "resolved" /\ Len(Batches) = 1
  /\ Len(imagePromises) = 2
  /\ imagePromises[1].st = "rejected" /\ imagePromises[2].st = "fulfilled"
  /\ settleOrder = <<1, 2>>
  /\ Len(Batches[1].successes) = 1 /\ Len(Batches[1].failures) = 1

\* C4: generateImageVariations never rejects, whatever the outcomes of the
\* requests (unsupported MIME type, transport failure after the retries, bad
\* response, error text that parses as JSON): once every request of a
\* chunk has settled it goes on, and a finished run has delivered a payload for every chunk,
\* accounting for every selected prompt.
RECURSIVE PayloadTotal(_)
PayloadTotal(bs) ==
  IF Len(bs) = 0 THEN 0
  ELSE Len(Head(bs).successes) + Len(Head(bs).failures) + PayloadTotal(Tail(bs))

C4_NeverRaises ==
  /\ pc # "rejected"
  /\ (pc = "awaitSettled" /\ AllSettledNow) =>
       /\ allSettled(imagePromises, settleOrder).ready
       /\ ~allSettled(imagePromises, settleOrder).threw
  /\ (~mock /\ pc = "resolved") =>
       /\ Len(Batches) = CeilDiv(Len(promptsToRun), batchSize)
       /\ PayloadTotal(Batches) = Len(promptsToRun)

\* The only request of the first chunk failed with a JSON error text and
\* the second chunk was processed all the same.
C4_Witness ==
  /\ ~mock /\ pc = "resolved" /\ batchSize = 1
  /\ Len(Batches) = 2
  /\ Batches[1].failures = << "Variacao 1: " \o ServerErrorMsg >>
  /\ Len(Batches[2].successes) = 1

\* 1-based catalog position of a prompt.
AngleOf(prompt) ==
  CHOOSE a \in 1..Len(detailedAnglePrompts) : detailedAnglePrompts[a] = prompt

AnglePrefix(a) == "Variacao " \o ToString(a) \o ": "

\* Catalog position named by a payload entry, 0 when it names none.
SuccessAngle(entry) ==
  IF \E a \in 1..Len(detailedAnglePrompts) :
       entry = "data:image/png;base64," \o ImageFor(detailedAnglePrompts[a])
  THEN CHOOSE a \in 1..Len(detailedAnglePrompts) :
         entry = "data:image/png;base64," \o ImageFor(detailedAnglePrompts[a])
  ELSE 0

FailureAngle(entry) ==
  IF \E a \in 1..Len(detailedAnglePrompts) : StartsWith(entry, AnglePrefix(a))
  THEN CHOOSE a \in 1..Len(detailedAnglePrompts) : StartsWith(entry, AnglePrefix(a))
  ELSE 0

Increasing(seq) == \A j \in 1..(Len(seq) - 1) : seq[j] < seq[j + 1]

LastBatch == Batches[Len(Batches)]

\* The requests of the last chunk with the given status, in the given order
\* of indices.
InOrder(order, status) ==
  SelectSeq(order, LAMBDA k : imagePromises[k].st = status)

SuccessAnglesIn(order) ==
  LET ok == InOrder(order, "fulfilled") IN
  [j \in 1..Len(ok) |-> AngleOf(imagePromises[ok[j]].prompt)]

FailureAnglesIn(order) ==
  LET ko == InOrder(order, "rejected") IN
  [j \in 1..Len(ko) |-> AngleOf(imagePromises[ko[j]].prompt)]

PayloadSuccessAngles(b) == [j \in 1..Len(b.successes) |-> SuccessAngle(b.successes[j])]
PayloadFailureAngles(b) == [j \in 1..Len(b.failures) |-> FailureAngle(b.failures[j])]

\* C5 as stated: within one payload the entries of successes and of
\* failures follow the order in which the requests of the batch settled.
C5_CompletionOrder ==
  (~mock /\ pc = "resolved" /\ Len(Batches) > 0) =>
    /\ PayloadSuccessAngles(LastBatch) = SuccessAnglesIn(settleOrder)
    /\ PayloadFailureAngles(LastBatch) = FailureAnglesIn(settleOrder)

\* C5 amended: within every payload the entries of successes and of failures
\* follow the order in which the requests were submitted (catalog order),
\* whatever the order in which they settled.
C5_SubmissionOrder ==
  ~mock =>
    /\ \A b \in 1..Len(Batches) :
         /\ Increasing(PayloadSuccessAngles(Batches[b]))
         /\ Increasing(PayloadFailureAngles(Batches[b]))
         /\ \A j \in 1..Len(Batches[b].successes) :
              SuccessAngle(Batches[b].successes[j]) # 0
         /\ \A j \in 1..Len(Batches[b].failures) :
              FailureAngle(Batches[b].failures[j]) # 0
    /\ (pc = "resolved" /\ Len(Batches) > 0) =>
         /\ PayloadSuccessAngles(LastBatch)
              = SuccessAnglesIn(Indices(Len(imagePromises)))
         /\ PayloadFailureAngles(LastBatch)
              = FailureAnglesIn(Indices(Len(imagePromises)))

\* The second request of a chunk of two was fulfilled before the first, and
\* the payload lists the first before the second.
C5_Witness ==
  /\ ~mock /\ pc = "resolved" /\ Len(Batches) > 0
  /\ Len(imagePromises) = 2
  /\ settleOrder = <<2, 1>>
  /\ PayloadSuccessAngles(LastBatch)
       = << AngleOf(imagePromises[1].prompt), AngleOf(imagePromises[2].prompt) >>

\* C6: the angle index of a failure message is stable. Whatever the
\* interleaving of completions, a rejected request for the catalog prompt at
\* 0-based position p yields exactly one failure string beginning
\* "Variacao p+1: ", in the payload of batch floor(p / batchSize); a fulfilled
\* request yields none, and a payload names no angle outside its chunk.
C6_State ==
  ~mock =>
    \A b \in 1..Len(Batches) : \A j \in 1..Len(Batches[b].failures) :
      LET a == FailureAngle(Batches[b].failures[j]) IN
      a # 0 /\ (a - 1) \div batchSize = b - 1

C6_Step ==
  (~mock /\ pc = "awaitSettled" /\ log' # log) =>
    LET e == log'[Len(log) + 1]
        b == Len(Batches)
    IN \A k \in 1..Len(imagePromises) :
         LET a == AngleOf(imagePromises[k].prompt)
             hits == { j \in 1..Len(e.failures) :
                         StartsWith(e.failures[j], AnglePrefix(a)) }
         IN /\ a = i + k
            /\ (a - 1) \div batchSize = b
            /\ Cardinality(hits) =
                 IF imagePromises[k].st = "rejected" THEN 1 ELSE 0

C6_StableAngleIndex == [](C6_State) /\ [][C6_Step]_vars

\* count = 7 with the default batch size of 5 and only angle 3 failing:
\* batch 1 is 4 successes and the failure of angle 3, batch 2 is 2 successes.
C6_Witness ==
  /\ ~mock /\ pc = "resolved"
  /\ numToGenerate = 7 /\ ~options.given /\ batchSize = 5
  /\ Len(Batches) = 2
  /\ Len(Batches[1].successes) = 4
  /\ Batches[1].failures = << "Variacao 3: " \o NetworkMsg >>
  /\ Len(Batches[2].successes) = 2 /\ Batches[2].failures = <<>>

\* C7: a call makes at most 3 attempts. The wait after failed attempt k
\* (k = 1, 2) is k times the base delay and none follows the third; a call
\* whose 3 attempts all failed is rejected with the error of the third,
\* unmodified; a call is rejected with a transport error in no other case
\* (after fewer failures the reply of the next attempt decides, so 2
\* failures and a good reply give a success).
C7_RetryBound ==
  \A k \in 1..Len(imagePromises) :
    LET r == imagePromises[k] IN
    /\ r.reqs <= retries
    /\ r.fails <= retries
    /\ r.waits = [j \in 1..Min(r.fails, retries - 1) |-> j * delay]
    /\ r.fails = retries =>
         /\ r.st = "rejected"
         /\ r.out = r.lastError
         /\ r.out \in svcErrors
         /\ r.reqs = retries
    /\ (r.st = "rejected" /\ r.fails < retries /\ isSupportedImageMime(mimeType)) =>
         r.out \in { InspectResponse(x).value : x \in Replies(r) }
    /\ (r.st = "inflight" /\ r.fails = retries - 1) =>
         /\ OnResponse(r, OneCandidate("STOP", <<ImagePart(r.prompt)>>, <<>>)).st
              = "fulfilled"
         /\ r.reqs = retries

\* All 3 attempts of a call failed.
C7_Witness ==
  \E k \in 1..Len(imagePromises) :
    /\ imagePromises[k].st = "rejected"
    /\ imagePromises[k].fails = 3
    /\ imagePromises[k].waits = <<1000, 2000>>
    /\ imagePromises[k].out = "Failed to fetch"

\* C8: semantic failures are never retried. A call rejected because of the
\* response (no candidate, finish reason other than STOP, no image data) has
\* issued exactly one request more than the transport failures before it, and
\* every call has issued one request per transport failure plus the current
\* or last one.
SemanticErrors(r) ==
  { InspectResponse(BadResponse(kind, r.prompt)).value : kind \in BadKinds }

C8_NoRetryOfSemanticFailure ==
  \A k \in 1..Len(imagePromises) :
    LET r == imagePromises[k] IN
    /\ (r.st = "rejected" /\ r.out \in SemanticErrors(r)) =>
         /\ r.reqs = r.fails + 1
         /\ Len(r.waits) = r.fails
    /\ (r.st \in {"inflight", "fulfilled"}) => r.reqs = r.fails + 1
    /\ r.st = "backoff" => r.reqs = r.fails

\* A call was rejected for a response without image data after one
\* transport failure: 2 requests in all.
C8_Witness ==
  \E k \in 1..Len(imagePromises) :
    /\ imagePromises[k].st = "rejected"
    /\ imagePromises[k].out = "No image data found in the API response."
    /\ imagePromises[k].fails = 1
    /\ imagePromises[k].reqs = 2

\* C9: for a MIME type outside image/{png,jpeg,jpg,webp}, compared without
\* regard to case, every call is rejected with the unsupported-input error,
\* with no request issued and no retry; for a MIME type inside the set the
\* check passes and a request is issued.
MimeInside == { "image/png", "IMAGE/JPEG", "image/jpg", "Image/WebP" }
MimeOutside == { "image/gif", "image/pngx", "ximage/png", "png", "" }

C9_MimeValidation ==
  /\ mimeType \in MimeInside \cup MimeOutside
  /\ \A k \in 1..Len(imagePromises) :
       LET r == imagePromises[k] IN
       /\ mimeType \in MimeOutside =>
            /\ r.st = "rejected"
            /\ r.out = "Unsupported MIME type: " \o mimeType
                         \o ". Use PNG, JPEG, or WEBP."
            /\ r.reqs = 0 /\ r.fails = 0 /\ r.waits = <<>>
       /\ mimeType \in MimeInside =>
            /\ r.reqs >= 1
            /\ ~StartsWith(r.out, "Unsupported MIME type")

\* A call with an upper-case supported type was fulfilled.
C9_Witness ==
  /\ mimeType = "IMAGE/JPEG"
  /\ \E k \in 1..Len(imagePromises) : imagePromises[k].st = "fulfilled"

\* C10: mock mode honours the batching of the real mode: for every count
\* and batchSize >= 1 a finished mock run has issued no call and has invoked
\* onBatchComplete ceil(min(count, 10) / batchSize) times, with min(count, 10)
\* results in all, batchSize per batch (the last possibly fewer).
C10_MockSameBatching ==
  (mock /\ pc = "resolved" /\ batchSize >= 1) =>
    LET N == Min(numToGenerate, CatalogSize) IN
    /\ Len(Calls) = 0
    /\ Len(Batches) = CeilDiv(N, batchSize)
    /\ PayloadTotal(Batches) = N
    /\ \A b \in 1..Len(Batches) :
         /\ Len(Batches[b].successes) = Min(batchSize, N - (b - 1) * batchSize)
         /\ Batches[b].failures = <<>>


\* ------------------------------------------------------------------------
\* One call, from the reply of the service to the entry of the payload
\* ------------------------------------------------------------------------
\* generateImageVariations not called.
PipelineIdle ==
  /\ mock = FALSE
  /\ base64Data = ""
  /\ mimeType = "image/png"
  /\ numToGenerate = 0
  /\ options = [given |-> FALSE, batchSize |-> 0]
  /\ svcErrors = {}
  /\ svcBadKinds = {}
  /\ Start

\* Longest parts array of a candidate.
MaxParts == 2

SeqsUpTo(S, n) == UNION { [1..k -> S] : k \in 0..n }

FinishReasons == {"", "STOP", "SAFETY", "MAX_TOKENS", "RECITATION"}
BlockReasons == {"", "OTHER", "SAFETY"}
PartValues == { TextPart, ImagePart("a"), ImagePart("b") }
RatingValues ==
  { <<>>,
    << [category |-> "HARM_CATEGORY_A", blocked |-> FALSE] >>,
    << [category |-> "HARM_CATEGORY_A", blocked |-> TRUE] >>,
    << [category |-> "HARM_CATEGORY_A", blocked |-> FALSE],
       [category |-> "HARM_CATEGORY_B", blocked |-> TRUE] >> }

Candidates ==
  [ finishReason : FinishReasons,
    parts : SeqsUpTo(PartValues, MaxParts),
    safetyRatings : RatingValues ]

\* A second candidate, complete, that the code never looks at.
SpareCandidate ==
  [finishReason |-> "STOP", parts |-> << ImagePart("spare") >>,
   safetyRatings |-> <<>>]

Responses ==
  { NoCandidate(b) : b \in BlockReasons }
    \cup { [candidates |-> << c >>, blockReason |-> ""] : c \in Candidates }
    \cup { [candidates |-> << c, SpareCandidate >>, blockReason |-> ""] :
             c \in Candidates }

\* Error texts: a keyword alone and inside texts that JSON.parse accepts or
\* refuses.
ErrorKeywords ==
  { "", "x", "SAFETY", "violates safety policy", "request blocked",
    "NetworkError", "Failed to fetch", "timeout" }

ErrorTexts ==
  { "null", "500", "true", "{}" }
    \cup ErrorKeywords
    \cup { "\"" \o k \o "\"" : k \in ErrorKeywords }
    \cup { "{\"status\":\"" \o k \o "\"}" : k \in ErrorKeywords }
    \cup { "[\"" \o k \o "\"]" : k \in ErrorKeywords }
    \cup { "{\"error\":null,\"detail\":\"" \o k \o "\"}" : k \in ErrorKeywords }
    \cup { "{\"error\":\"" \o k \o "\"}" : k \in ErrorKeywords }
    \cup { "{\"error\":{\"code\":500,\"message\":\"" \o k \o "\"}}" :
             k \in ErrorKeywords }
    \cup { "{\"error\":{\"message\":\"" \o k \o "\"" : k \in ErrorKeywords }

OutcomeReplies ==
  { [kind |-> "response", text |-> "", response |-> r] : r \in Responses }
    \cup { [kind |-> "error", text |-> t, response |-> NoCandidate("")] :
             t \in ErrorTexts }

InitOutcome ==
  /\ PipelineIdle
  /\ LayoutIdle
  /\ AlbumIdle
  /\ PaletteIdle
  /\ GalleryIdle
  /\ reply \in OutcomeReplies
  /\ opc = "idle"
  /\ callResult = Thrown("")
  /\ reported = ""

\* generateContentWithRetry returns the response or throws its last error;
\* generateSingleImageVariation settles.
OutcomeSettle ==
  /\ opc = "idle"
  /\ callResult' = IF reply.kind = "response"
                   THEN InspectResponse(reply.response)
                   ELSE Thrown(reply.text)
  /\ opc' = "settled"
  /\ UNCHANGED << offOutcome, reply, reported >>

\* The body of results.forEach for this call, as the first of its chunk.
OutcomeReport ==
  /\ opc = "settled"
  /\ reported' = IF callResult.ok THEN SuccessEntry(callResult.value)
                 ELSE FailureEntry(0, 0, callResult.value)
  /\ opc' = "reported"
  /\ UNCHANGED << offOutcome, reply, callResult >>

NextOutcome ==
  \/ OutcomeSettle
  \/ OutcomeReport

SpecOutcome == InitOutcome /\ [][NextOutcome]_vars


\* The reply was a response and the call has settled on it.
SettledOnResponse == opc \in {"settled", "reported"} /\ reply.kind = "response"

HasImage(parts) == \E k \in 1..Len(parts) : parts[k].data # ""

FirstImage(parts) ==
  parts[CHOOSE k \in 1..Len(parts) :
          /\ parts[k].data # ""
          /\ \A j \in 1..(k - 1) : parts[j].data = ""].data

\* C11: after a transport success the call decides in this order: no first
\* candidate -> the blocked/empty failure, with the block reason when there
\* is one; a finish reason present and other than STOP -> the safety failure
\* for SAFETY and the generation-failed failure otherwise, image data or not;
\* no inline data in any part -> the no-image-data failure; otherwise it
\* returns the inline data of the first part that has some.
C11_DecisionOrder ==
  SettledOnResponse =>
    LET r == reply.response IN
    IF Len(r.candidates) = 0
    THEN /\ ~callResult.ok
         /\ callResult.value =
              IF r.blockReason # ""
              THEN "Generation blocked. Reason: " \o r.blockReason \o "."
              ELSE "The API response does not contain any valid candidates."
    ELSE LET c == r.candidates[1] IN
         IF c.finishReason \notin {"", "STOP"}
         THEN /\ ~callResult.ok
              /\ IF c.finishReason = "SAFETY"
                 THEN StartsWith(callResult.value,
                                 "Generation blocked for safety reasons.")
                 ELSE callResult.value =
                        "Generation failed. Reason: " \o c.finishReason \o "."
         ELSE IF ~HasImage(c.parts)
         THEN /\ ~callResult.ok
              /\ callResult.value = "No image data found in the API response."
         ELSE /\ callResult.ok
              /\ callResult.value = FirstImage(c.parts)

\* A candidate that finished with MAX_TOKENS and carries image data was
\* settled as a generation failure.
C11_Witness ==
  /\ SettledOnResponse
  /\ Len(reply.response.candidates) > 0
  /\ reply.response.candidates[1].finishReason = "MAX_TOKENS"
  /\ HasImage(reply.response.candidates[1].parts)
  /\ callResult = Thrown("Generation failed. Reason: MAX_TOKENS.")

\* The text of JSON.parse's result carries a nested error message.
CarriesNestedMessage(rawErrorMessage) ==
  LET parsed == JSONParse(rawErrorMessage) IN
  /\ parsed.ok
  /\ ~Nullish(parsed.val)
  /\ ~Nullish(GetProp(parsed.val, "error"))
  /\ Truthy(GetProp(GetProp(parsed.val, "error"), "message"))

\* C12: the message reported for a failed request is the server-error
\* message when the raw text parses as structured data with a nested error
\* message, and in every other case, text that parses without a nested
\* message included, the safety message if the lower-cased text contains
\* "safety", else the blocked message if it contains "blocked", else the
\* network message if it contains "network" or "failed to fetch", else the
\* raw text.
C12_FailureMessage ==
  (opc = "reported" /\ ~callResult.ok) =>
    reported = "Variacao 1: "
                 \o (IF CarriesNestedMessage(callResult.value)
                     THEN ServerErrorMsg
                     ELSE CatchPatterns(callResult.value))


\* ------------------------------------------------------------------------
\* createBrandedAlbum: grid and layout arithmetic
\* ------------------------------------------------------------------------
\* Largest image count laid out.
MaxImages == 113

\* Preview and export resolutions, and their doubles.
Resolutions == {1024, 1080, 2048, 2160, 4096}

\* Mutant: four images still go on one row.
getGridConfigurationWide(n) ==
  IF n <= 4 THEN [COLS |-> n, ROWS |-> 1]
  ELSE IF n <= 6 THEN [COLS |-> 3, ROWS |-> 2]
  ELSE IF n <= 9 THEN [COLS |-> 3, ROWS |-> 3]
  ELSE [COLS |-> 4, ROWS |-> CeilDiv(n, 4)]

getGridConfiguration(n) ==
  IF n <= 3 THEN [COLS |-> n, ROWS |-> 1]
  ELSE IF n = 4 THEN [COLS |-> 2, ROWS |-> 2]
  ELSE IF n <= 6 THEN [COLS |-> 3, ROWS |-> 2]
  ELSE IF n <= 9 THEN [COLS |-> 3, ROWS |-> 3]
  ELSE [COLS |-> 4, ROWS |-> CeilDiv(n, 4)]

\* Lengths are real numbers in the code. Here a length is a whole number of
\* 1/SubPixels of a pixel, chosen so that every product by
\* scale = resolution / 2048 (resolution a multiple of 8), every division by
\* COLS, ROWS or 2 of the layout and every product by an aspect ratio of
\* 1:1, 4:3, 3:4, 2:1 or 1:2 is exact.
\* Without images COLS is 0 and nothing is divided by it.
SubPixels(grid) ==
  1536 * (IF grid.COLS = 0 THEN 1 ELSE grid.COLS) * grid.ROWS

\* Mutant: each scaled constant is rounded to a whole pixel.
ScaledRounded(c, res, unit) == ((2 * c * res + 2048) \div 4096) * unit

\* c * scale = c * resolution / 2048, in units: 2048 = 4 * 512, where 4
\* divides the resolution and 512 the unit.
Scaled(c, res, unit) == ((c * res) \div 4) * (unit \div 512)

\* (c / 2) * scale, for the constants 12.5 and 1.5.
ScaledHalf(c, res, unit) == ((c * res) \div 8) * (unit \div 512)

\* availableWidth / 0, with availableWidth positive.
Infinity == "Infinity"

\* Lines 111-129.
Layout(n, res) ==
  LET grid == getGridConfiguration(n)
      unit == SubPixels(grid)
      COLS == grid.COLS
      ROWS == grid.ROWS
      canvasWidth == res * unit
      canvasHeight == res * unit
      PADDING == Scaled(150, res, unit)
      HEADER_HEIGHT == Scaled(250, res, unit)
      FOOTER_HEIGHT == Scaled(150, res, unit)
      GAP == Scaled(60, res, unit)
      BORDER_RADIUS == Scaled(24, res, unit)
      availableWidth == canvasWidth - (PADDING * 2) - (GAP * (COLS - 1))
      CELL_WIDTH == IF COLS = 0 THEN Infinity ELSE availableWidth \div COLS
      availableHeight ==
        canvasHeight - HEADER_HEIGHT - FOOTER_HEIGHT - (GAP * (ROWS - 1))
      CELL_HEIGHT == availableHeight \div ROWS
      LABEL_AREA_HEIGHT == Scaled(100, res, unit)
      IMAGE_AREA_HEIGHT == CELL_HEIGHT - LABEL_AREA_HEIGHT
  IN [ COLS |-> COLS, ROWS |-> ROWS, unit |-> unit,
       canvasWidth |-> canvasWidth, canvasHeight |-> canvasHeight,
       PADDING |-> PADDING, HEADER_HEIGHT |-> HEADER_HEIGHT,
       FOOTER_HEIGHT |-> FOOTER_HEIGHT, GAP |-> GAP,
       BORDER_RADIUS |-> BORDER_RADIUS,
       availableWidth |-> availableWidth, CELL_WIDTH |-> CELL_WIDTH,
       availableHeight |-> availableHeight, CELL_HEIGHT |-> CELL_HEIGHT,
       LABEL_AREA_HEIGHT |-> LABEL_AREA_HEIGHT,
       IMAGE_AREA_HEIGHT |-> IMAGE_AREA_HEIGHT ]

\* Lines 174-180.
xOffset(L, n, row) ==
  LET itemsInLastRow == n % L.COLS
      isLastRow == row = L.ROWS - 1
  IN IF isLastRow /\ itemsInLastRow > 0
     THEN LET lastRowWidth ==
                (itemsInLastRow * L.CELL_WIDTH) + ((itemsInLastRow - 1) * L.GAP)
          IN (L.availableWidth - lastRowWidth) \div 2
     ELSE 0

\* Lines 170-183 and 190: the card of images[index].
Card(L, n, index) ==
  LET row == index \div L.COLS
      col == index % L.COLS
  IN [ index |-> index, row |-> row, col |-> col,
       x |-> L.PADDING + col * (L.CELL_WIDTH + L.GAP) + xOffset(L, n, row),
       y |-> L.HEADER_HEIGHT + row * (L.CELL_HEIGHT + L.GAP),
       width |-> L.CELL_WIDTH, height |-> L.CELL_HEIGHT ]

\* The cards of contentImages.forEach, in array order.
Cards(L, n) == [k \in 1..n |-> Card(L, n, k - 1)]

InitLayout ==
  /\ PipelineIdle
  /\ OutcomeIdle
  /\ AlbumIdle
  /\ PaletteIdle
  /\ GalleryIdle
  /\ imageCount \in 1..MaxImages
  /\ resolution \in Resolutions
  /\ lpc = "start"
  /\ layout = NoLayout
  /\ cards = <<>>
  /\ previous = NoPrevious

\* The layout of one render.
LayOut ==
  /\ lpc = "start"
  /\ layout' = Layout(imageCount, resolution)
  /\ cards' = Cards(layout', imageCount)
  /\ lpc' = "laid"
  /\ UNCHANGED << offLayout, imageCount, resolution, previous >>

\* The caller renders the same images again at another resolution.
RenderAgain ==
  /\ lpc = "laid"
  /\ ~previous.seen
  /\ \E r \in Resolutions \ {resolution} :
       /\ resolution' = r
       /\ previous' = [seen |-> TRUE, resolution |-> resolution,
                       layout |-> layout, cards |-> cards]
  /\ lpc' = "start"
  /\ layout' = NoLayout
  /\ cards' = <<>>
  /\ UNCHANGED << offLayout, imageCount >>

NextLayout ==
  \/ LayOut
  \/ RenderAgain

SpecLayout == InitLayout /\ [][NextLayout]_vars

\* C13: getGridConfiguration(n) is (n,1) for n <= 3, (2,2) for n = 4, (3,2)
\* for n in 5..6, (3,3) for n in 7..9 and (4, ceil(n/4)) from 10 on; so
\* (1)=(1,1), (3)=(3,1), (4)=(2,2), (6)=(3,2), (9)=(3,3), (10)=(4,3).
C13_GridTable ==
  lpc = "laid" =>
    LET n == imageCount
        grid == << layout.COLS, layout.ROWS >>
    IN /\ n \in 1..3 => grid = << n, 1 >>
       /\ n = 4 => grid = << 2, 2 >>
       /\ n \in 5..6 => grid = << 3, 2 >>
       /\ n \in 7..9 => grid = << 3, 3 >>
       /\ n >= 10 => /\ layout.COLS = 4
                     /\ 4 * (layout.ROWS - 1) < n
                     /\ n <= 4 * layout.ROWS
       /\ n = 1 => grid = << 1, 1 >>
       /\ n = 3 => grid = << 3, 1 >>
       /\ n = 6 => grid = << 3, 2 >>
       /\ n = 9 => grid = << 3, 3 >>
       /\ n = 10 => grid = << 4, 3 >>

\* Ten images were laid out on 4 columns and 3 rows.
C13_Witness ==
  /\ lpc = "laid"
  /\ imageCount = 10
  /\ layout.COLS = 4
  /\ layout.ROWS = 3


\* Extent of a card rectangle on each axis.
Left(c) == Min(c.x, c.x + c.width)
Right(c) == Max(c.x, c.x + c.width)
Top(c) == Min(c.y, c.y + c.height)
Bottom(c) == Max(c.y, c.y + c.height)

\* Two card rectangles share no interior point.
Apart(c, d) ==
  \/ Right(c) <= Left(d)
  \/ Right(d) <= Left(c)
  \/ Bottom(c) <= Top(d)
  \/ Bottom(d) <= Top(c)

\* A card lies on the canvas, below the header band and above the footer band.
InsideBands(L, c) ==
  /\ 0 <= Left(c)
  /\ Right(c) <= L.canvasWidth
  /\ L.HEADER_HEIGHT <= Top(c)
  /\ Bottom(c) <= L.canvasHeight - L.FOOTER_HEIGHT

\* C14: for every image count n >= 1 every image is placed exactly once with
\* no overlap: image i gets the cell (floor(i/COLS), i mod COLS), distinct
\* from every other, with row < ROWS, ROWS = ceil(n/COLS) and no row empty;
\* the card rectangles of any two images, a shifted partial last row
\* included, do not intersect and lie inside the canvas between the header
\* band and the footer band.
C14_PlacedOnceNoOverlap ==
  lpc = "laid" =>
    LET n == imageCount
        L == layout
    IN /\ Len(cards) = n
       /\ \A k \in 1..n :
            /\ cards[k].row = (k - 1) \div L.COLS
            /\ cards[k].col = (k - 1) % L.COLS
            /\ cards[k].row < L.ROWS
            /\ InsideBands(L, cards[k])
       /\ L.COLS * (L.ROWS - 1) < n
       /\ n <= L.COLS * L.ROWS
       /\ \A r \in 0..(L.ROWS - 1) : \E k \in 1..n : cards[k].row = r
       /\ \A j \in 1..n : \A k \in (j + 1)..n :
            /\ << cards[j].row, cards[j].col >> # << cards[k].row, cards[k].col >>
            /\ Apart(cards[j], cards[k])


\* Row r holds one card in every column.
FullRow(L, n, r) == (r + 1) * L.COLS <= n

\* C15: when the final row is not fully populated its cards are centred in
\* the available width: the distance from the left padding edge to the first
\* card of that row equals the distance from its last card to the right
\* padding edge; the cards of every fully populated row start at the left
\* padding edge, with no offset.
C15_LastRowCentred ==
  lpc = "laid" =>
    LET n == imageCount
        L == layout
        lastRow == L.ROWS - 1
    IN /\ ~FullRow(L, n, lastRow) =>
            LET first == cards[lastRow * L.COLS + 1]
                last == cards[n]
            IN /\ first.row = lastRow
               /\ last.row = lastRow
               /\ first.x - L.PADDING
                    = (L.canvasWidth - L.PADDING) - (last.x + last.width)
       /\ \A k \in 1..n :
            FullRow(L, n, cards[k].row) =>
              cards[k].x = L.PADDING + cards[k].col * (L.CELL_WIDTH + L.GAP)


\* Every metric of layout M and every card origin of ds is twice that of
\* layout L and cs.
Doubled(L, cs, M, ds) ==
  /\ M.PADDING = 2 * L.PADDING
  /\ M.HEADER_HEIGHT = 2 * L.HEADER_HEIGHT
  /\ M.FOOTER_HEIGHT = 2 * L.FOOTER_HEIGHT
  /\ M.GAP = 2 * L.GAP
  /\ M.BORDER_RADIUS = 2 * L.BORDER_RADIUS
  /\ M.LABEL_AREA_HEIGHT = 2 * L.LABEL_AREA_HEIGHT
  /\ M.CELL_WIDTH = 2 * L.CELL_WIDTH
  /\ M.CELL_HEIGHT = 2 * L.CELL_HEIGHT
  /\ Len(ds) = Len(cs)
  /\ \A k \in 1..Len(cs) :
       /\ ds[k].x = 2 * cs[k].x
       /\ ds[k].y = 2 * cs[k].y

\* C16: for the same image count, doubling the resolution multiplies
\* padding, header height, footer height, gap, corner radius, label-area
\* height, cell width and cell height, and each card's x/y origin, by
\* exactly 2.
C16_DoublingScalesByTwo ==
  (lpc = "laid" /\ previous.seen) =>
    /\ resolution = 2 * previous.resolution =>
         Doubled(previous.layout, previous.cards, layout, cards)
    /\ previous.resolution = 2 * resolution =>
         Doubled(layout, cards, previous.layout, previous.cards)

\* Five images rendered at 1080 and then at 2160.
C16_Witness ==
  /\ lpc = "laid"
  /\ previous.seen
  /\ imageCount = 5
  /\ previous.resolution = 1080
  /\ resolution = 2160
  /\ layout.CELL_WIDTH = 2 * previous.layout.CELL_WIDTH
  /\ layout.CELL_WIDTH > 0


\* ------------------------------------------------------------------------
\* createBrandedAlbum: drawing
\* ------------------------------------------------------------------------
RECURSIVE Gcd(_, _)
Gcd(a, b) == IF b = 0 THEN a ELSE Gcd(b, a % b)

\* parseAspectRatio: the ratio as << parts[0], parts[1] >>, << 0, 1 >> for
\* 'auto'.
parseAspectRatio(ratioStr) ==
  CASE ratioStr = "auto" -> << 0, 1 >>
    [] ratioStr = "1:1" -> << 1, 1 >>
    [] ratioStr = "4:3" -> << 4, 3 >>
    [] ratioStr = "3:4" -> << 3, 4 >>

\* Lines 202-207: the whole image, scaled by
\* Math.min(imgContainerWidth / img.width, imgContainerHeight / img.height).
ContainFit(img, cx, cy, cw, ch) ==
  LET g == Gcd(img.width, img.height)
      w == img.width \div g
      h == img.height \div g
      byWidth == cw * h <= ch * w
      scaledW == IF byWidth THEN cw ELSE (ch * w) \div h
      scaledH == IF byWidth THEN (cw * h) \div w ELSE ch
  IN [ path |-> "contain",
       sx |-> 0, sy |-> 0, sWidth |-> img.width, sHeight |-> img.height,
       dx |-> cx + (cw - scaledW) \div 2, dy |-> cy + (ch - scaledH) \div 2,
       dWidth |-> scaledW, dHeight |-> scaledH ]

\* Mutant: the crop is taken from the top left corner of the source.
CoverFitFromCorner(img, cx, cy, cw, ch, ratioStr) ==
  LET targetRatio == parseAspectRatio(ratioStr)
      p == targetRatio[1]
      q == targetRatio[2]
      fits == (cw * q) \div p <= ch
      targetW == IF fits THEN cw ELSE (ch * p) \div q
      targetH == IF fits THEN (cw * q) \div p ELSE ch
      wider == img.width * q > img.height * p
  IN [ path |-> "cover",
       sx |-> 0, sy |-> 0,
       sWidth |-> IF wider THEN (img.height * p) \div q ELSE img.width,
       sHeight |-> IF wider THEN img.height ELSE (img.width * q) \div p,
       dx |-> cx + (cw - targetW) \div 2, dy |-> cy + (ch - targetH) \div 2,
       dWidth |-> targetW, dHeight |-> targetH ]

\* Lines 209-230.
CoverFit(img, cx, cy, cw, ch, ratioStr) ==
  LET targetRatio == parseAspectRatio(ratioStr)
      p == targetRatio[1]
      q == targetRatio[2]
      fits == (cw * q) \div p <= ch
      targetW == IF fits THEN cw ELSE (ch * p) \div q
      targetH == IF fits THEN (cw * q) \div p ELSE ch
      wider == img.width * q > img.height * p
      sWidth == IF wider THEN (img.height * p) \div q ELSE img.width
      sHeight == IF wider THEN img.height ELSE (img.width * q) \div p
  IN [ path |-> "cover",
       sx |-> IF wider THEN (img.width - sWidth) \div 2 ELSE 0,
       sy |-> IF wider THEN 0 ELSE (img.height - sHeight) \div 2,
       sWidth |-> sWidth, sHeight |-> sHeight,
       dx |-> cx + (cw - targetW) \div 2, dy |-> cy + (ch - targetH) \div 2,
       dWidth |-> targetW, dHeight |-> targetH ]

\* Lines 194-198: the image sub-area of a card.
ImageContainer(L, c, res) ==
  LET cellPadding == Scaled(25, res, L.unit) IN
  [ x |-> c.x + cellPadding, y |-> c.y + cellPadding,
    width |-> L.CELL_WIDTH - cellPadding * 2,
    height |-> L.IMAGE_AREA_HEIGHT - cellPadding * 2 ]

\* Lines 201-231.
DrawImage(img, box, opts) ==
  IF opts.imageFit = "contain" \/ opts.imageAspectRatio = "auto"
  THEN ContainFit(img, box.x, box.y, box.width, box.height)
  ELSE CoverFit(img, box.x, box.y, box.width, box.height, opts.imageAspectRatio)

\* Lines 233-240: the watermark over the card c. Its four numbers are in
\* tenths of the unit of length, so that CELL_WIDTH * 0.3 is exact.
DrawWatermark(L, c, opts, res, index) ==
  LET cellPadding == Scaled(25, res, L.unit)
      g == Gcd(opts.logoWidth, opts.logoHeight)
      watermarkW == Min((opts.logoWidth \div 4) * 10 * L.unit,
                        L.CELL_WIDTH * 3)
      watermarkH == (watermarkW \div (opts.logoWidth \div g))
                      * (opts.logoHeight \div g)
  IN [ op |-> "watermark", index |-> index,
       x |-> 10 * (c.x + L.CELL_WIDTH - cellPadding) - watermarkW,
       y |-> 10 * (c.y + L.IMAGE_AREA_HEIGHT - cellPadding) - watermarkH,
       width |-> watermarkW, height |-> watermarkH ]

\* Lines 185-248: what is drawn for images[index], in order.
DrawCard(L, imgs, opts, res, index) ==
  LET c == Card(L, Len(imgs), index)
      box == ImageContainer(L, c, res)
  IN << [ op |-> "card", index |-> index, x |-> c.x, y |-> c.y,
          width |-> c.width, height |-> c.height,
          radius |-> L.BORDER_RADIUS ],
        [ op |-> "image", index |-> index, box |-> box,
          fit |-> DrawImage(imgs[index + 1], box, opts) ] >>
     \o (IF opts.showWatermark /\ opts.logo # "none"
         THEN << DrawWatermark(L, c, opts, res, index) >> ELSE <<>>)
     \o << [ op |-> "divider", index |-> index,
             x |-> c.x + Scaled(30, res, L.unit),
             y |-> c.y + L.IMAGE_AREA_HEIGHT - L.unit,
             width |-> L.CELL_WIDTH - Scaled(60, res, L.unit),
             height |-> ScaledHalf(3, res, L.unit) ],
           [ op |-> "label", index |-> index,
             x |-> c.x + L.CELL_WIDTH \div 2,
             y |-> c.y + L.IMAGE_AREA_HEIGHT + (L.LABEL_AREA_HEIGHT \div 2)
                     + Scaled(10, res, L.unit) ] >>

RECURSIVE DrawCards(_, _, _, _, _)
DrawCards(L, imgs, opts, res, index) ==
  IF index >= Len(imgs) THEN <<>>
  ELSE DrawCard(L, imgs, opts, res, index)
         \o DrawCards(L, imgs, opts, res, index + 1)

\* Lines 146-164.
DrawHeader(L, opts, res) ==
  LET hasLogo == opts.logo # "none"
      logoSize == Scaled(100, res, L.unit)
      headerContentX == IF hasLogo
                        THEN L.PADDING + logoSize + Scaled(30, res, L.unit)
                        ELSE L.canvasWidth \div 2
  IN (IF hasLogo
      THEN << [ op |-> "logo", x |-> L.PADDING,
                y |-> L.PADDING - logoSize \div 2,
                width |-> logoSize, height |-> logoSize ] >>
      ELSE <<>>)
     \o << [ op |-> "title", x |-> headerContentX,
             y |-> L.PADDING
                     + (IF opts.slogan THEN 0 ELSE Scaled(25, res, L.unit)) ] >>
     \o (IF opts.slogan
         THEN << [ op |-> "slogan", x |-> headerContentX,
                   y |-> L.PADDING + Scaled(60, res, L.unit) ] >>
         ELSE <<>>)

\* Lines 253-256.
DrawFooter(L, res) ==
  << [ op |-> "footer", x |-> L.canvasWidth \div 2,
       y |-> L.canvasHeight - Scaled(60, res, L.unit) ] >>

\* Lines 132-133.
DrawBackground(L) ==
  << [ op |-> "background", x |-> 0, y |-> 0,
       width |-> L.canvasWidth, height |-> L.canvasHeight ] >>

\* A progress value, as a fraction.
Percent(num, den) == [num |-> num, den |-> den]

\* Mutant: the value is computed from index instead of index + 1.
CardProgressFromIndex(n) == [k \in 1..n |-> Percent(30 * n + 70 * (k - 1), n)]

\* Line 249, for every image in turn.
CardProgress(n) == [k \in 1..n |-> Percent(30 * n + 70 * k, n)]


\* Most images of one album.
MaxAlbumImages == 2

\* Decoded sizes: landscape 2:1, portrait 1:2, square.
ImageSizes == { << 1200, 600 >>, << 600, 1200 >>, << 1200, 1200 >> }

AlbumImages ==
  { [width |-> sz[1], height |-> sz[2], decodable |-> d] :
      sz \in ImageSizes, d \in BOOLEAN }

\* Decoded sizes of the logo: a quarter of the width is below, or above,
\* three tenths of the width of a cell.
LogoSizes == { << 200, 100 >>, << 4000, 2000 >> }

\* logo: "none" for logoSrc = null, "ok" / "bad" for a logo that decodes /
\* does not.
AlbumOptionValues ==
  { o \in [ logo : {"none", "ok", "bad"},
            logoWidth : {0} \cup { sz[1] : sz \in LogoSizes },
            logoHeight : {0} \cup { sz[2] : sz \in LogoSizes },
            showWatermark : BOOLEAN,
            slogan : {TRUE},
            imageAspectRatio : {"auto", "1:1", "4:3", "3:4"},
            imageFit : {"contain", "cover"} ] :
      IF o.logo = "none"
      THEN o.logoWidth = 0 /\ o.logoHeight = 0
      ELSE << o.logoWidth, o.logoHeight >> \in LogoSizes }

InitAlbum ==
  /\ PipelineIdle
  /\ OutcomeIdle
  /\ LayoutIdle
  /\ PaletteIdle
  /\ GalleryIdle
  /\ images \in UNION { [1..n -> AlbumImages] : n \in 0..MaxAlbumImages }
  /\ albumOptions \in AlbumOptionValues
  /\ albumResolution = 1024
  /\ ctxAvailable \in BOOLEAN
  /\ apc = "idle"
  /\ loads = <<>>
  /\ progress = <<>>
  /\ canvas = <<>>
  /\ albumResult = ""
  /\ earlierCanvas = <<>>

\* allSrcs: the images, then the logo when there is one.
SrcCount == Len(images) + (IF albumOptions.logo # "none" THEN 1 ELSE 0)

\* loadImage(allSrcs[k - 1]) will fire onload (TRUE) or onerror (FALSE).
Decodes(k) ==
  IF k <= Len(images) THEN images[k].decodable ELSE albumOptions.logo = "ok"

\* Mutant: the join waits for every decode and ignores the failures.
JoinLoadsSettled(ls) ==
  IF \E k \in 1..Len(ls) : ls[k] = "pending" THEN "pending" ELSE "fulfilled"

\* Mutant: the join is fulfilled by the first decode that succeeds.
JoinLoadsEager(ls) ==
  IF \E k \in 1..Len(ls) : ls[k] = "failed" THEN "rejected"
  ELSE IF \E k \in 1..Len(ls) : ls[k] = "loaded" THEN "fulfilled"
  ELSE "pending"

\* Promise.all over the decodes.
JoinLoads(ls) ==
  IF \E k \in 1..Len(ls) : ls[k] = "failed" THEN "rejected"
  ELSE IF \E k \in 1..Len(ls) : ls[k] = "pending" THEN "pending"
  ELSE "fulfilled"

\* Lines 141-259, after the join: header, cards, footer, toDataURL.
FinishRender ==
  LET L == Layout(Len(images), albumResolution) IN
  /\ canvas' = canvas \o DrawHeader(L, albumOptions, albumResolution)
                 \o DrawCards(L, images, albumOptions, albumResolution, 0)
                 \o DrawFooter(L, albumResolution)
  /\ progress' = progress \o << Percent(20, 1), Percent(30, 1) >>
                   \o CardProgress(Len(images)) \o << Percent(100, 1) >>
  /\ albumResult' = "data:image/png;base64,"
  /\ apc' = "resolved"

\* createBrandedAlbum is called: lines 105-140, up to the await.
Render ==
  /\ apc = "idle"
  /\ IF ~ctxAvailable
     THEN /\ progress' = << Percent(0, 1) >>
          /\ apc' = "rejected"
          /\ albumResult' = "Could not get canvas context"
          /\ UNCHANGED << canvas, loads >>
     ELSE /\ canvas' = DrawBackground(Layout(Len(images), albumResolution))
          /\ progress' = << Percent(0, 1), Percent(5, 1) >>
          /\ loads' = [k \in 1..SrcCount |-> "pending"]
          /\ apc' = "loading"
          /\ albumResult' = ""
  /\ UNCHANGED << offAlbum, images, albumOptions, albumResolution,
                  ctxAvailable, earlierCanvas >>

\* One decode settles; the join may settle with it and the function go on.
LoadSettles(k, outcome) ==
  /\ apc = "loading"
  /\ loads[k] = "pending"
  /\ loads' = [loads EXCEPT ![k] = outcome]
  /\ LET joined == JoinLoads(loads') IN
     CASE joined = "rejected" ->
            /\ apc' = "rejected"
            /\ albumResult' = "Failed to load image resource"
            /\ UNCHANGED << canvas, progress >>
       [] joined = "fulfilled" -> FinishRender
       [] joined = "pending" -> UNCHANGED << apc, albumResult, canvas, progress >>
  /\ UNCHANGED << offAlbum, images, albumOptions, albumResolution,
                  ctxAvailable, earlierCanvas >>

\* img.onload
ImageLoad == \E k \in 1..Len(loads) : Decodes(k) /\ LoadSettles(k, "loaded")

\* img.onerror
ImageError == \E k \in 1..Len(loads) : ~Decodes(k) /\ LoadSettles(k, "failed")

\* Promise.all([]): without images and logo the join is fulfilled at once
\* and the function goes on after the await.
JoinEmpty ==
  /\ apc = "loading"
  /\ loads = <<>>
  /\ FinishRender
  /\ UNCHANGED << offAlbum, images, albumOptions, albumResolution,
                  ctxAvailable, loads, earlierCanvas >>

\* After a call has resolved, createBrandedAlbum is called with the same
\* images and options and twice the resolution.
RenderDoubled ==
  /\ apc = "resolved"
  /\ earlierCanvas = <<>>
  /\ earlierCanvas' = canvas
  /\ albumResolution' = 2 * albumResolution
  /\ apc' = "idle"
  /\ loads' = <<>>
  /\ progress' = <<>>
  /\ canvas' = <<>>
  /\ albumResult' = ""
  /\ UNCHANGED << offAlbum, images, albumOptions, ctxAvailable >>

NextAlbum ==
  \/ Render
  \/ ImageLoad
  \/ ImageError
  \/ JoinEmpty
  \/ RenderDoubled

SpecAlbum == InitAlbum /\ [][NextAlbum]_vars


\* The image drawing calls on the canvas.
ImageOps == { k \in 1..Len(canvas) : canvas[k].op = "image" }

\* The source rectangle is the whole image.
WholeSource(img, fit) ==
  /\ fit.sx = 0
  /\ fit.sy = 0
  /\ fit.sWidth = img.width
  /\ fit.sHeight = img.height

\* The destination rectangle lies in the box with equal margins on both
\* sides and above and below.
CentredInside(box, fit) ==
  /\ fit.dWidth <= box.width
  /\ fit.dHeight <= box.height
  /\ fit.dx >= box.x
  /\ fit.dy >= box.y
  /\ fit.dx - box.x = (box.x + box.width) - (fit.dx + fit.dWidth)
  /\ fit.dy - box.y = (box.y + box.height) - (fit.dy + fit.dHeight)

\* C17: in the cover path (imageFit = cover and imageAspectRatio # auto) the
\* source crop lies inside the source image and has exactly the target
\* aspect ratio: a source relatively wider than the target keeps its full
\* height and is trimmed by equal amounts left and right, a source relatively
\* taller or equal keeps its full width and is trimmed by equal amounts top
\* and bottom; whenever imageFit = contain or imageAspectRatio = auto the
\* contain path is used, which draws the whole source, uniformly scaled and
\* centred inside the image sub-area.
C17_CoverCropsContainFits ==
  apc = "resolved" =>
    \A k \in ImageOps :
      LET fit == canvas[k].fit
          box == canvas[k].box
          img == images[canvas[k].index + 1]
          g == Gcd(img.width, img.height)
          ratio == parseAspectRatio(albumOptions.imageAspectRatio)
          p == ratio[1]
          q == ratio[2]
      IN IF albumOptions.imageFit = "cover"
            /\ albumOptions.imageAspectRatio # "auto"
         THEN /\ fit.path = "cover"
              /\ fit.sx >= 0
              /\ fit.sy >= 0
              /\ fit.sWidth > 0
              /\ fit.sHeight > 0
              /\ fit.sx + fit.sWidth <= img.width
              /\ fit.sy + fit.sHeight <= img.height
              /\ fit.sWidth * q = fit.sHeight * p
              /\ IF img.width * q > img.height * p
                 THEN /\ fit.sHeight = img.height
                      /\ fit.sy = 0
                      /\ fit.sx = img.width - (fit.sx + fit.sWidth)
                 ELSE /\ fit.sWidth = img.width
                      /\ fit.sx = 0
                      /\ fit.sy = img.height - (fit.sy + fit.sHeight)
         ELSE /\ fit.path = "contain"
              /\ WholeSource(img, fit)
              /\ fit.dWidth * (img.height \div g) = fit.dHeight * (img.width \div g)
              /\ CentredInside(box, fit)

\* A 1200 x 600 image drawn with cover at 4:3: the crop is 800 x 600, 200
\* pixels from either side.
C17_Witness ==
  /\ apc = "resolved"
  /\ albumOptions.imageFit = "cover"
  /\ albumOptions.imageAspectRatio = "4:3"
  /\ \E k \in ImageOps :
       /\ images[canvas[k].index + 1].width = 1200
       /\ images[canvas[k].index + 1].height = 600
       /\ canvas[k].fit.sx = 200
       /\ canvas[k].fit.sWidth = 800
       /\ canvas[k].fit.sHeight = 600

\* What is drawn after the join.
DrawnAfterJoin ==
  { k \in 1..Len(canvas) : canvas[k].op # "background" }

\* C20: rendering is all-or-nothing: if the decoding of one source image or
\* of the logo fails, createBrandedAlbum rejects, returns no raster, draws no
\* header, card or footer and reports no progress value above 5; a missing 2D
\* context rejects before any layout or decode work.
C20_AllOrNothing ==
  /\ (\E k \in 1..Len(loads) : loads[k] = "failed") => apc = "rejected"
  /\ apc = "resolved" => \A k \in 1..SrcCount : Decodes(k)
  /\ apc = "rejected" =>
       /\ albumResult \in { "Could not get canvas context",
                            "Failed to load image resource" }
       /\ DrawnAfterJoin = {}
       /\ \A k \in 1..Len(progress) : progress[k].num <= 5 * progress[k].den
  /\ (~ctxAvailable /\ apc # "idle") =>
       /\ apc = "rejected"
       /\ albumResult = "Could not get canvas context"
       /\ loads = <<>>
       /\ canvas = <<>>

\* The logo failed to decode after both images had decoded: the call has
\* rejected with the progress at 5.
C20_Witness ==
  /\ apc = "rejected"
  /\ Len(images) = 2
  /\ loads = << "loaded", "loaded", "failed" >>
  /\ progress = << Percent(0, 1), Percent(5, 1) >>
  /\ albumResult = "Failed to load image resource"


\* ------------------------------------------------------------------------
\* computePalette
\* ------------------------------------------------------------------------
\* Line 32 for v = 0..255: v/255 linearised,
\* c <= 0.03928 ? c / 12.92 : ((c + 0.055) / 1.055) ^ 2.4,
\* in units of 1/100000 and rounded to the nearest unit (entry v + 1).
LinearTable ==
  << 0, 30, 61, 91, 121, 152, 182, 212, 243, 273, 304, 335,
     368, 402, 439, 478, 518, 561, 605, 651, 700, 750, 802, 857,
     913, 972, 1033, 1096, 1161, 1229, 1298, 1370, 1444, 1521, 1600, 1681,
     1764, 1850, 1938, 2029, 2122, 2217, 2315, 2416, 2519, 2624, 2732, 2843,
     2956, 3071, 3190, 3310, 3434, 3560, 3689, 3820, 3955, 4092, 4231, 4374,
     4519, 4667, 4817, 4971, 5127, 5286, 5448, 5613, 5781, 5951, 6125, 6301,
     6480, 6663, 6848, 7036, 7227, 7421, 7619, 7819, 8022, 8228, 8438, 8650,
     8866, 9084, 9306, 9531, 9759, 9990, 10224, 10462, 10702, 10946, 11193, 11444,
     11697, 11954, 12214, 12477, 12744, 13014, 13287, 13563, 13843, 14126, 14413, 14703,
     14996, 15293, 15593, 15896, 16203, 16513, 16827, 17144, 17465, 17789, 18116, 18447,
     18782, 19120, 19462, 19807, 20156, 20508, 20864, 21223, 21586, 21953, 22323, 22697,
     23074, 23455, 23840, 24228, 24620, 25016, 25415, 25818, 26225, 26636, 27050, 27468,
     27889, 28315, 28744, 29177, 29614, 30054, 30499, 30947, 31399, 31855, 32314, 32778,
     33245, 33716, 34191, 34670, 35153, 35640, 36131, 36625, 37124, 37626, 38133, 38643,
     39157, 39676, 40198, 40724, 41254, 41789, 42327, 42869, 43415, 43966, 44520, 45079,
     45641, 46208, 46778, 47353, 47932, 48515, 49102, 49693, 50289, 50888, 51492, 52100,
     52712, 53328, 53948, 54572, 55201, 55834, 56471, 57112, 57758, 58408, 59062, 59720,
     60383, 61050, 61721, 62396, 63076, 63760, 64448, 65141, 65837, 66539, 67244, 67954,
     68669, 69387, 70110, 70838, 71569, 72306, 73046, 73791, 74540, 75294, 76052, 76815,
     77582, 78354, 79130, 79910, 80695, 81485, 82279, 83077, 83880, 84687, 85499, 86316,
     87137, 87962, 88792, 89627, 90466, 91310, 92158, 93011, 93869, 94731, 95597, 96469,
     97345, 98225, 99110, 100000 >>

\* a[0] * 0.2126 + a[1] * 0.7154 + a[2] * 0.0722, in units of 1e-9.
getLuminance(r, g, b) ==
  LinearTable[r + 1] * 2126 + LinearTable[g + 1] * 7154
    + LinearTable[b + 1] * 722

\* luminance < 0.4
IsDark(luminance) == luminance < 400000000

HexDigits == "0123456789abcdef"

\* Two hexadecimal digits of a channel value.
Hex2(v) == CharAt(HexDigits, (v \div 16) + 1) \o CharAt(HexDigits, (v % 16) + 1)

\* `#${((1 << 24) + (r << 16) + (g << 8) + b).toString(16).slice(1)}`
dominantColor(r, g, b) == "#" \o Hex2(r) \o Hex2(g) \o Hex2(b)

createDefaultPalette ==
  [ primary |-> "#3b82f6", background |-> "#f8fafc", card |-> "#ffffff",
    textPrimary |-> "#0f172a", textSecondary |-> "#64748b" ]

\* Mutant: the pairing of background and card is the other way round.
SamplePaletteSwapped(r, g, b) ==
  LET isDark == IsDark(getLuminance(r, g, b)) IN
  [ primary |-> dominantColor(r, g, b),
    background |-> IF isDark THEN "#f8fafc" ELSE "#ffffff",
    card |-> IF isDark THEN "#ffffff" ELSE "#f8fafc",
    textPrimary |-> "#0f172a", textSecondary |-> "#64748b" ]

\* Lines 47-59: the palette for the sampled pixel.
SamplePalette(r, g, b) ==
  LET isDark == IsDark(getLuminance(r, g, b)) IN
  [ primary |-> dominantColor(r, g, b),
    background |-> IF isDark THEN "#ffffff" ELSE "#f8fafc",
    card |-> IF isDark THEN "#f8fafc" ELSE "#ffffff",
    textPrimary |-> "#0f172a", textSecondary |-> "#64748b" ]

\* Mutant: the catch block lets the error through.
CatchPaletteRethrown(error) == [st |-> "rejected", value |-> NoPalette]

\* Lines 60-63: the catch block.
CatchPalette(error) == [st |-> "resolved", value |-> createDefaultPalette]

\* Channel values of the sampled pixel. For every pixel over these values
\* the luminance is more than 0.001 away from 0.4, so that the rounding of
\* LinearTable does not change on which side it falls.
Channels == {0, 64, 128, 160, 192, 255}

Logos ==
  [ decodable : BOOLEAN, r : Channels, g : Channels, b : Channels ]

InitPalette ==
  /\ PipelineIdle
  /\ OutcomeIdle
  /\ LayoutIdle
  /\ AlbumIdle
  /\ GalleryIdle
  /\ logo \in Logos
  /\ paletteCtx \in BOOLEAN
  /\ ppc = "idle"
  /\ palette = NoPalette

\* computePalette is called: up to the await of loadImage.
ComputePalette ==
  /\ ppc = "idle"
  /\ ppc' = "loading"
  /\ UNCHANGED << offPalette, logo, paletteCtx, palette >>

\* The function settles with outcome.
SettlePalette(outcome) ==
  /\ ppc' = outcome.st
  /\ palette' = outcome.value
  /\ UNCHANGED << offPalette, logo, paletteCtx >>

\* img.onload: lines 40-59.
LogoLoad ==
  /\ ppc = "loading"
  /\ logo.decodable
  /\ SettlePalette(
       IF ~paletteCtx
       THEN CatchPalette("Canvas context not available for color extraction")
       ELSE [st |-> "resolved", value |-> SamplePalette(logo.r, logo.g, logo.b)])

\* img.onerror: loadImage rejects and the catch block runs.
LogoError ==
  /\ ppc = "loading"
  /\ ~logo.decodable
  /\ SettlePalette(CatchPalette("Failed to load image resource"))

NextPalette ==
  \/ ComputePalette
  \/ LogoLoad
  \/ LogoError

SpecPalette == InitPalette /\ [][NextPalette]_vars

\* C18: computePalette never fails to its caller: when the logo cannot be
\* decoded, or no drawing context is available, it resolves with exactly
\* the default palette {primary:#3b82f6, background:#f8fafc, card:#ffffff,
\* textPrimary:#0f172a, textSecondary:#64748b}.
C18_PaletteFallback ==
  /\ ppc \in {"idle", "loading", "resolved"}
  /\ (ppc = "resolved" /\ (~logo.decodable \/ ~paletteCtx)) =>
       palette = [ primary |-> "#3b82f6", background |-> "#f8fafc",
                   card |-> "#ffffff", textPrimary |-> "#0f172a",
                   textSecondary |-> "#64748b" ]

\* A logo that does not decode was answered with the default palette.
C18_Witness ==
  /\ ppc = "resolved"
  /\ ~logo.decodable
  /\ palette.primary = "#3b82f6"
  /\ palette.background = "#f8fafc"

\* The call resolved from the sampled pixel.
Sampled == ppc = "resolved" /\ logo.decodable /\ paletteCtx

SampleIsDark == IsDark(getLuminance(logo.r, logo.g, logo.b))

FixedColours ==
  /\ palette.textPrimary = "#0f172a"
  /\ palette.textSecondary = "#64748b"
  /\ palette.primary = dominantColor(logo.r, logo.g, logo.b)

\* C19 as claimed: for a pixel classified dark (luminance < 0.4) the palette
\* has a light background (#f8fafc) with a white (#ffffff) card, and for a
\* pixel that is not dark the opposite pairing; in both cases textPrimary is
\* #0f172a, textSecondary is #64748b and primary is the sampled colour.
C19_DarkGetsWhiteCard ==
  Sampled =>
    /\ FixedColours
    /\ IF SampleIsDark
       THEN palette.background = "#f8fafc" /\ palette.card = "#ffffff"
       ELSE palette.background = "#ffffff" /\ palette.card = "#f8fafc"

\* C19 as amended: for a pixel classified dark the palette has a white
\* (#ffffff) background with a #f8fafc card, and for a pixel that is not dark
\* a #f8fafc background with a white card; the text colours and primary are
\* as claimed.
C19_DarkGetsWhiteBackground ==
  Sampled =>
    /\ FixedColours
    /\ IF SampleIsDark
       THEN palette.background = "#ffffff" /\ palette.card = "#f8fafc"
       ELSE palette.background = "#f8fafc" /\ palette.card = "#ffffff"

\* A black pixel: the palette has a white background and primary #000000.
C19_Witness ==
  /\ Sampled
  /\ logo.r = 0 /\ logo.g = 0 /\ logo.b = 0
  /\ SampleIsDark
  /\ palette.primary = "#000000"
  /\ palette.background = "#ffffff"
  /\ palette.card = "#f8fafc"


\* ------------------------------------------------------------------------
\* createBrandedAlbum: order of drawing and progress
\* ------------------------------------------------------------------------
\* Every decode of allSrcs has completed.
AllDecoded ==
  /\ Len(loads) = SrcCount
  /\ \A k \in 1..Len(loads) : loads[k] = "loaded"

\* The part of the drawing an operation belongs to: 0 background, 1 header,
\* 2 cards, 3 footer.
PartOf(d) ==
  CASE d.op = "background" -> 0
    [] d.op \in {"logo", "title", "slogan"} -> 1
    [] d.op \in {"card", "image", "watermark", "divider", "label"} -> 2
    [] d.op = "footer" -> 3

\* d is drawn no later than e in the order header, images in array order,
\* footer.
InDrawingOrder(d, e) ==
  \/ PartOf(d) < PartOf(e)
  \/ PartOf(d) = PartOf(e) /\ PartOf(d) # 2
  \/ PartOf(d) = 2 /\ PartOf(e) = 2 /\ d.index <= e.index

\* After the join the header, every image and the footer are drawn, in
\* this order.
DrawnInOrder ==
  /\ \A j, k \in 1..Len(canvas) : j < k => InDrawingOrder(canvas[j], canvas[k])
  /\ \E k \in 1..Len(canvas) : canvas[k].op = "title"
  /\ \A n \in 0..(Len(images) - 1) :
       \E k \in 1..Len(canvas) : canvas[k].op = "image" /\ canvas[k].index = n
  /\ canvas[Len(canvas)].op = "footer"

\* C21 as claimed: no drawing operation on the canvas (the background fill
\* included) occurs before the concurrent decodes of all source images and
\* the logo have completed; after the join, drawing proceeds in the order
\* header, then images in array order, then footer.
C21_NothingDrawnBeforeJoin ==
  /\ canvas # <<>> => AllDecoded
  /\ apc = "resolved" => DrawnInOrder

\* C21 as amended: the background fill is the only drawing operation that
\* occurs before the decodes of all source images and the logo have
\* completed, and it precedes them; no header, card or footer is drawn
\* before the join; after the join, drawing proceeds in the order header,
\* then images in array order, then footer.
C21_OnlyBackgroundBeforeJoin ==
  /\ apc \in {"loading", "rejected", "resolved"} /\ ctxAvailable =>
       /\ canvas # <<>>
       /\ canvas[1].op = "background"
  /\ (\E k \in 1..Len(canvas) : canvas[k].op # "background") => AllDecoded
  /\ apc = "resolved" => DrawnInOrder

\* Two images and a logo: the background was filled while three decodes
\* were pending, the header came after the join and the footer last.
C21_Witness ==
  /\ apc = "resolved"
  /\ Len(images) = 2
  /\ Len(loads) = 3
  /\ AllDecoded
  /\ canvas[1].op = "background"
  /\ canvas[2].op = "logo"
  /\ canvas[Len(canvas)].op = "footer"


\* p is at most q, for two progress values.
AtMost(p, q) == p.num * q.den <= q.num * p.den

\* The progress value p is the number v.
IsValue(p, v) == p.num = v * p.den

\* C22: on a successful render with n images the progress callback receives
\* 0, 5, 20, 30, then 30 + 70 * (i + 1) / n after the i-th image for
\* i = 0..n-1, ending at 100; no reported value is lower than an earlier one,
\* every value lies in [0, 100] and the last reported value is 100 (also for
\* n = 0).
C22_ProgressSequence ==
  apc = "resolved" =>
    LET n == Len(images) IN
    /\ Len(progress) = n + 5
    /\ IsValue(progress[1], 0)
    /\ IsValue(progress[2], 5)
    /\ IsValue(progress[3], 20)
    /\ IsValue(progress[4], 30)
    /\ \A k \in 1..n :
         progress[4 + k].num * n = (30 * n + 70 * k) * progress[4 + k].den
    /\ IsValue(progress[Len(progress)], 100)
    /\ \A j, k \in 1..Len(progress) : j < k => AtMost(progress[j], progress[k])
    /\ \A k \in 1..Len(progress) :
         /\ AtMost(Percent(0, 1), progress[k])
         /\ AtMost(progress[k], Percent(100, 1))

\* Two images: 0, 5, 20, 30, 65, 100, 100.
C22_Witness ==
  /\ apc = "resolved"
  /\ Len(images) = 2
  /\ Len(progress) = 7
  /\ IsValue(progress[5], 65)
  /\ IsValue(progress[6], 100)
  /\ IsValue(progress[7], 100)

\* The numbers a drawing call is given to position and size what it draws.
Coordinates(d) ==
  CASE d.op \in {"background", "logo", "divider", "watermark"} ->
         << d.x, d.y, d.width, d.height >>
    [] d.op = "card" -> << d.x, d.y, d.width, d.height, d.radius >>
    [] d.op = "image" ->
         << d.fit.dx, d.fit.dy, d.fit.dWidth, d.fit.dHeight >>
    [] d.op \in {"title", "slogan", "label", "footer"} -> << d.x, d.y >>

\* Every number of e is twice the number of d.
Twice(d, e) ==
  /\ e.op = d.op
  /\ Coordinates(e) = [j \in 1..Len(Coordinates(d)) |-> 2 * Coordinates(d)[j]]

\* The call at twice the resolution of an earlier call has resolved.
RenderedTwice == apc = "resolved" /\ earlierCanvas # <<>>

\* C23: every constant used to position or size what createBrandedAlbum
\* draws scales with resolution / 2048: for a fixed input, doubling the
\* resolution doubles every drawn coordinate and size, the position and
\* thickness of the divider of each card and the width and height of the
\* watermark included.
C23_DoublingDoublesDrawing ==
  RenderedTwice =>
    /\ Len(canvas) = Len(earlierCanvas)
    /\ \A k \in 1..Len(canvas) : Twice(earlierCanvas[k], canvas[k])


\* ------------------------------------------------------------------------
\* generateImageVariations: termination
\* ------------------------------------------------------------------------
\* C24: assuming every generation request eventually settles,
\* generateImageVariations eventually resolves, after a finite number of
\* onBatchComplete invocations, for every count >= 0 and every integer
\* batchSize option the caller can pass (0 included), in real and in mock
\* mode.
C24_EventuallyResolves == <>(pc = "resolved")


\* ------------------------------------------------------------------------
\* GeneratedImageGallery: reordering by drag and drop
\* ------------------------------------------------------------------------
\* Most images in the gallery.
MaxGalleryImages == 4

ItemIds == << "a", "b", "c", "d", "e" >>

\* An ImageItem {id, src, label}.
Item(id) == [id |-> id, src |-> "blob:" \o id, label |-> "Angle " \o id]

\* Mutant: the element is not removed.
SpliceOutKept(arr, start) ==
  IF start >= 0 /\ start < Len(arr)
  THEN [removed |-> << arr[start + 1] >>, array |-> arr]
  ELSE [removed |-> <<>>, array |-> arr]

\* arr.splice(start, 1): the removed elements and the array afterwards.
SpliceOut(arr, start) ==
  IF start >= 0 /\ start < Len(arr)
  THEN [removed |-> << arr[start + 1] >>,
        array |-> SubSeq(arr, 1, start) \o SubSeq(arr, start + 2, Len(arr))]
  ELSE [removed |-> <<>>, array |-> arr]

\* arr.splice(start, 0, item): the array afterwards.
SpliceIn(arr, start, item) ==
  LET at == Min(Max(start, 0), Len(arr)) IN
  SubSeq(arr, 1, at) \o << item >> \o SubSeq(arr, at + 1, Len(arr))

\* The array object [...arr] evaluates to: a new one, named after the
\* variable that holds it.
Spread(arr) == "newImages"

\* handleDragEnter (lines 61-70) with the props and state of the render it
\* closes over: whether onReorder is called and with which list, the images
\* array as the handler leaves it, and the new dragItemIndex. The two splices
\* change the array object that newImages refers to.
handleDragEnter(imgs, dragIndex, index) ==
  IF dragIndex = Null \/ dragIndex = index
  THEN [emitted |-> FALSE, list |-> <<>>, images |-> imgs,
        dragItemIndex |-> dragIndex]
  ELSE LET newImages == Spread("images")
           heap0 == [images |-> imgs, newImages |-> imgs]
           out == SpliceOut(heap0[newImages], dragIndex)
           heap1 == [heap0 EXCEPT ![newImages] = out.array]
           dragItem == out.removed[1]
           heap2 == [heap1 EXCEPT
                       ![newImages] = SpliceIn(heap1[newImages], index, dragItem)]
       IN [emitted |-> TRUE, list |-> heap2[newImages],
           images |-> heap2["images"], dragItemIndex |-> index]

\* The parent's onReorder: the list becomes the images of the next render.
ApplyReorder(imgs, result) == IF result.emitted THEN result.list ELSE imgs

InitGallery ==
  /\ PipelineIdle
  /\ OutcomeIdle
  /\ LayoutIdle
  /\ AlbumIdle
  /\ PaletteIdle
  /\ \E n \in 1..MaxGalleryImages :
       galleryImages = [k \in 1..n |-> Item(ItemIds[k])]
  /\ dragItemIndex = Null
  /\ dragged = ""
  /\ lastEvent = NoEvent

\* The indices of the cards on the page.
CardIndices == 0..(Len(galleryImages) - 1)

\* onDragStart of the card at index.
DragStart ==
  \E index \in CardIndices :
    /\ dragItemIndex' = index
    /\ dragged' = galleryImages[index + 1].id
    /\ lastEvent' = [kind |-> "dragStart", index |-> index]
    /\ UNCHANGED << offGallery, galleryImages >>

\* onDragEnter of the card at index.
DragEnter ==
  \E index \in CardIndices :
    LET result == handleDragEnter(galleryImages, dragItemIndex, index) IN
    /\ dragItemIndex' = result.dragItemIndex
    /\ galleryImages' = ApplyReorder(galleryImages, result)
    /\ lastEvent' = [kind |-> "dragEnter", index |-> index,
                     before |-> dragItemIndex, input |-> galleryImages,
                     result |-> result]
    /\ UNCHANGED << offGallery, dragged >>

\* onDragEnd.
DragEnd ==
  /\ dragItemIndex' = Null
  /\ dragged' = ""
  /\ lastEvent' = [kind |-> "dragEnd"]
  /\ UNCHANGED << offGallery, galleryImages >>

NextGallery ==
  \/ DragStart
  \/ DragEnter
  \/ DragEnd

SpecGallery == InitGallery /\ [][NextGallery]_vars

\* The list without its element at the 0-based index at.
Without(list, at) == SubSeq(list, 1, at) \o SubSeq(list, at + 2, Len(list))

\* The last event was a dragEnter whose handler called onReorder.
Reordered == lastEvent.kind = "dragEnter" /\ lastEvent.result.emitted

\* C25: after any sequence of dragStart / dragEnter / dragEnd events, every
\* list passed to onReorder is a permutation of the current image list (same
\* length, same ids, the id, src and label of each item kept together), the
\* dragged item is at the index last entered, the relative order of the
\* other items is unchanged and the input images array is not mutated;
\* dragEnter with no drag in progress or onto the dragged index emits
\* nothing.
C25_ReorderIsAMove ==
  lastEvent.kind = "dragEnter" =>
    LET input == lastEvent.input
        list == lastEvent.result.list
        from == lastEvent.before
        index == lastEvent.index
    IN /\ lastEvent.result.images = input
       /\ IF from = Null \/ from = index
          THEN /\ ~lastEvent.result.emitted
               /\ galleryImages = input
          ELSE /\ lastEvent.result.emitted
               /\ Len(list) = Len(input)
               /\ { list[k] : k \in 1..Len(list) }
                    = { input[k] : k \in 1..Len(input) }
               /\ \A j, k \in 1..Len(list) : j # k => list[j].id # list[k].id
               /\ \A k \in 1..Len(list) : list[k] = Item(list[k].id)
               /\ list[index + 1] = input[from + 1]
               /\ list[index + 1].id = dragged
               /\ Without(list, index) = Without(input, from)

\* The first of four items has been dragged over the third and then the
\* fourth card: b, c, d, a.
C25_Witness ==
  /\ Reordered
  /\ dragged = "a"
  /\ lastEvent.index = 3
  /\ lastEvent.before = 2
  /\ lastEvent.result.list = << Item("b"), Item("c"), Item("d"), Item("a") >>

====
